---------------------------- MODULE Spec2Model ----------------------------
(***************************************************************************)
(* A model of vicalc, a modal terminal spreadsheet: the cell model         *)
(* (cell.rs), the A1 reference codec and formula rewriter (formula.rs),    *)
(* the sparse sheet (sheet.rs), the expression evaluator (engine.rs), the  *)
(* ':' commands (commands.rs) and the modal controller (main.rs).          *)
(*                                                                         *)
(* Strings are sequences of one-character strings, so that trimming,       *)
(* prefix tests, tokenising and rewriting are computed character by        *)
(* character as the code computes them.  f64 values are exact rationals    *)
(* num/den (den >= 1, lowest terms).                                       *)
(***************************************************************************)
EXTENDS Integers, Sequences, FiniteSets, TLC

VARIABLES
    sheet,              \* App.sheet: [name, cells, col_widths]
    mode,               \* App.mode
    axis,               \* App.axis
    input_buffer,       \* App.input_buffer
    command_buffer,     \* App.command_buffer
    status_message,     \* App.status_message
    cursor_col,         \* App.cursor_col
    cursor_row,         \* App.cursor_row
    view_col,           \* App.view_col
    view_row,           \* App.view_row
    clipboard,          \* App.clipboard (Option<ClipboardContent>)
    undo_stack,         \* App.undo_stack
    redo_stack,         \* App.redo_stack
    running,            \* App.running
    pending_operator,   \* App.pending_operator (Option<char>)
    count_buffer,       \* App.count_buffer
    slash_pending,      \* App.slash_pending
    visual_start_col,   \* App.visual_start_col
    visual_start_row,   \* App.visual_start_row
    edit_original,      \* App.edit_original
    last_search,        \* App.last_search
    search_forward,     \* App.search_forward
    register_pending,   \* App.register_pending
    last_paste_cols,    \* App.last_paste_cols
    last_paste_rows,    \* App.last_paste_rows
    system_clipboard,   \* the text held by the system clipboard (arboard)
    current_file,       \* App.current_file (Option<String>)
    trail,              \* history: the events handled last, newest first: what each
                        \*   did (undo, redo, other) and the Sheet before it
    edit_cursor,        \* history: the cursor when the Edit mode the App is in was
                        \*   entered (Option<(col, row)>)
    eval_result,        \* history: the last Sheet::evaluate call and its result
    rewrite,            \* history: the last call of a formula.rs function and its result
    steps               \* history: number of events counted so far

app_vars == <<mode, axis, input_buffer, command_buffer, status_message, cursor_col, cursor_row,
              view_col, view_row, clipboard, undo_stack, redo_stack, running, pending_operator,
              count_buffer, slash_pending, visual_start_col, visual_start_row, edit_original,
              last_search, search_forward, register_pending, last_paste_cols, last_paste_rows,
              system_clipboard, current_file>>

vars == <<sheet, app_vars, trail, edit_cursor, eval_result, rewrite, steps>>

(***************************************************************************)
(* Program constants.                                                      *)
(***************************************************************************)
MAX_COL == 255
MAX_ROW == 9999
DEFAULT_COL_WIDTH == 10
MIN_COL_WIDTH == 3
MAX_COL_WIDTH == 50
UNDO_LIMIT == 100
TERM_WIDTH == 80
TERM_HEIGHT == 24
ROW_LABEL_WIDTH == 5

(***************************************************************************)
(* Characters and strings.                                                 *)
(***************************************************************************)
UpperLetters == <<"A","B","C","D","E","F","G","H","I","J","K","L","M",
                  "N","O","P","Q","R","S","T","U","V","W","X","Y","Z">>
LowerLetters == <<"a","b","c","d","e","f","g","h","i","j","k","l","m",
                  "n","o","p","q","r","s","t","u","v","w","x","y","z">>
DigitChars == <<"0","1","2","3","4","5","6","7","8","9">>

IsUpper(c) == \E i \in 1..26 : UpperLetters[i] = c
IsLower(c) == \E i \in 1..26 : LowerLetters[i] = c
is_ascii_alphabetic(c) == IsUpper(c) \/ IsLower(c)
is_ascii_digit(c) == \E i \in 1..10 : DigitChars[i] = c
is_whitespace(c) == c \in {" ", "\t"}

to_ascii_uppercase(c) ==
    IF IsLower(c) THEN UpperLetters[CHOOSE i \in 1..26 : LowerLetters[i] = c] ELSE c
to_ascii_lowercase(c) ==
    IF IsUpper(c) THEN LowerLetters[CHOOSE i \in 1..26 : UpperLetters[i] = c] ELSE c
to_uppercase(s) == [i \in 1..Len(s) |-> to_ascii_uppercase(s[i])]
to_lowercase(s) == [i \in 1..Len(s) |-> to_ascii_lowercase(s[i])]
eq_ignore_ascii_case(s, t) == to_lowercase(s) = to_lowercase(t)

LetterVal(c) == CHOOSE i \in 1..26 : UpperLetters[i] = c   \* 'A' -> 1
DigitVal(c) == (CHOOSE i \in 1..10 : DigitChars[i] = c) - 1

RECURSIVE trim_start(_)
trim_start(s) ==
    IF s # <<>> /\ is_whitespace(Head(s)) THEN trim_start(Tail(s)) ELSE s
RECURSIVE trim_end(_)
trim_end(s) ==
    IF s # <<>> /\ is_whitespace(s[Len(s)])
    THEN trim_end(SubSeq(s, 1, Len(s) - 1)) ELSE s
trim(s) == trim_end(trim_start(s))

starts_with(s, p) == Len(s) >= Len(p) /\ SubSeq(s, 1, Len(p)) = p
ends_with(s, p) == Len(s) >= Len(p) /\ SubSeq(s, Len(s) - Len(p) + 1, Len(s)) = p

AllDigits(s) == \A i \in 1..Len(s) : is_ascii_digit(s[i])

RECURSIVE DigitsVal(_)
DigitsVal(s) ==
    IF s = <<>> THEN 0
    ELSE 10 * DigitsVal(SubSeq(s, 1, Len(s) - 1)) + DigitVal(s[Len(s)])

RECURSIVE Pow(_, _)
Pow(b, k) == IF k = 0 THEN 1 ELSE b * Pow(b, k - 1)

RECURSIVE NatToStr(_)
NatToStr(n) ==
    IF n < 10 THEN <<DigitChars[n + 1]>>
    ELSE NatToStr(n \div 10) \o <<DigitChars[(n % 10) + 1]>>

(***************************************************************************)
(* Exact rationals standing for f64.                                       *)
(***************************************************************************)
Abs(n) == IF n < 0 THEN -n ELSE n
RECURSIVE Gcd(_, _)
Gcd(a, b) == IF b = 0 THEN a ELSE Gcd(b, a % b)
Rat(n, d) ==
    LET reduced(g, sg) == [num |-> sg * (n \div g), den |-> sg * (d \div g)]
    IN  IF n = 0 THEN [num |-> 0, den |-> 1]
        ELSE reduced(Gcd(Abs(n), Abs(d)), IF d < 0 THEN -1 ELSE 1)

\* str::parse::<usize>: a non-empty run of decimal digits (an optional leading
\* '+' is accepted by Rust; the inputs of this model never carry one here).
parse_usize(s) ==
    IF s # <<>> /\ AllDigits(s) THEN [ok |-> TRUE, n |-> DigitsVal(s)]
    ELSE [ok |-> FALSE, n |-> 0]

parse_f64_decimal(sgn, ip, fp) ==
    IF AllDigits(ip) /\ AllDigits(fp) /\ Len(ip) + Len(fp) >= 1
    THEN [ok |-> TRUE,
          r |-> Rat(sgn * (DigitsVal(ip) * Pow(10, Len(fp)) + DigitsVal(fp)),
                    Pow(10, Len(fp)))]
    ELSE [ok |-> FALSE, r |-> [num |-> 0, den |-> 1]]
parse_f64_split_at(sgn, body, dot) ==
    parse_f64_decimal(sgn, SubSeq(body, 1, dot - 1), SubSeq(body, dot + 1, Len(body)))
parse_f64_first_dot(body, dots) ==
    IF dots = {} THEN Len(body) + 1 ELSE CHOOSE i \in dots : \A j \in dots : i <= j
parse_f64_unsigned(sgn, body) ==
    parse_f64_split_at(sgn, body, parse_f64_first_dot(body, {i \in 1..Len(body) : body[i] = "."}))
\* str::parse::<f64> on the decimal forms [+-]digits[.digits]; exponents and
\* the words inf/nan are outside the alphabets this model draws inputs from.
parse_f64(s) ==
    LET signed == s # <<>> /\ Head(s) \in {"+", "-"}
    IN  parse_f64_unsigned(IF signed /\ Head(s) = "-" THEN -1 ELSE 1, IF signed THEN Tail(s) ELSE s)

(***************************************************************************)
(* cell.rs: CellValue, Cell, parse_input.                                  *)
(***************************************************************************)
CellValue(tag) == [tag |-> tag, num |-> 0, den |-> 1, s |-> <<>>, b |-> FALSE, e |-> ""]
Empty == CellValue("Empty")
Number(r) == [CellValue("Number") EXCEPT !.num = r.num, !.den = r.den]
Text(s) == [CellValue("Text") EXCEPT !.s = s]
Boolean(b) == [CellValue("Boolean") EXCEPT !.b = b]
Formula(s) == [CellValue("Formula") EXCEPT !.s = s]
Error(e) == [CellValue("Error") EXCEPT !.e = e]

CellError_to_string(e) ==
    CASE e = "DivZero" -> <<"#","D","I","V","/","0","!">>
      [] e = "Value"   -> <<"#","V","A","L","U","E","!">>
      [] e = "Ref"     -> <<"#","R","E","F","!">>
      [] e = "Name"    -> <<"#","N","A","M","E","?">>
      [] e = "Num"     -> <<"#","N","U","M","!">>
      [] e = "NA"      -> <<"#","N","/","A">>
      [] e = "Cycle"   -> <<"#","C","Y","C","L","E","!">>

Cell_new(input, value) == [value |-> value, raw_input |-> input, format |-> "General"]
Cell_default == Cell_new(<<>>, Empty)

parse_input_percent(trimmed, pct) ==
    IF ends_with(trimmed, <<"%">>) /\ pct.ok
    THEN Number(Rat(pct.r.num, pct.r.den * 100))
    ELSE Text(trimmed)
parse_input_number(trimmed, n) ==
    IF n.ok THEN Number(n.r)
    ELSE parse_input_percent(trimmed, parse_f64(trim(SubSeq(trimmed, 1, Len(trimmed) - 1))))
parse_input_parse(trimmed) ==
    IF trimmed = <<>> THEN Empty
    ELSE IF starts_with(trimmed, <<"=">>) THEN Formula(trimmed)
    ELSE IF eq_ignore_ascii_case(trimmed, <<"t","r","u","e">>) THEN Boolean(TRUE)
    ELSE IF eq_ignore_ascii_case(trimmed, <<"f","a","l","s","e">>) THEN Boolean(FALSE)
    ELSE parse_input_number(trimmed, parse_f64(trimmed))
parse_input(input) ==
    parse_input_parse(trim(input))

(***************************************************************************)
(* formula.rs: the A1 reference codec.                                     *)
(***************************************************************************)
RECURSIVE ColIndex1(_)
\* the fold acc * 26 + (c - 'A' + 1) over the column letters (1-based index)
ColIndex1(col_str) ==
    IF col_str = <<>> THEN 0
    ELSE ColIndex1(SubSeq(col_str, 1, Len(col_str) - 1)) * 26
         + LetterVal(col_str[Len(col_str)])

NoRef == [some |-> FALSE, col |-> 0, row |-> 0, col_abs |-> FALSE, row_abs |-> FALSE]
SomeRef(col, row, col_abs, row_abs) ==
    [some |-> TRUE, col |-> col, row |-> row, col_abs |-> col_abs, row_abs |-> row_abs]

RECURSIVE parse_cell_ref_loop(_, _, _)
parse_cell_ref_loop(chars, i, st) ==
    IF i > Len(chars) THEN st
    ELSE LET c == chars[i]
             st2 == IF c = "$"
                    THEN IF st.in_col /\ st.col_str = <<>>
                         THEN [st EXCEPT !.col_abs = TRUE]
                         ELSE [st EXCEPT !.row_abs = TRUE]
                    ELSE IF is_ascii_alphabetic(c) /\ st.in_col
                    THEN [st EXCEPT !.col_str = Append(@, c)]
                    ELSE IF is_ascii_digit(c)
                    THEN [st EXCEPT !.in_col = FALSE, !.row_str = Append(@, c)]
                    ELSE st
         IN  parse_cell_ref_loop(chars, i + 1, st2)

parse_cell_ref_numbered(st, row) ==
    IF ~row.ok \/ row.n = 0 THEN NoRef
    ELSE SomeRef(ColIndex1(st.col_str) - 1, row.n - 1, st.col_abs, st.row_abs)
parse_cell_ref_scanned(st) ==
    IF st.col_str = <<>> \/ st.row_str = <<>> THEN NoRef
    ELSE parse_cell_ref_numbered(st, parse_usize(st.row_str))
parse_cell_ref_parse(up) ==
    IF up = <<>> THEN NoRef
    ELSE parse_cell_ref_scanned(parse_cell_ref_loop(up, 1,
                   [col_abs |-> FALSE, row_abs |-> FALSE, col_str |-> <<>>,
                    row_str |-> <<>>, in_col |-> TRUE]))
parse_cell_ref(cell_ref) ==
    parse_cell_ref_parse(to_uppercase(trim(cell_ref)))

RECURSIVE col_to_name_PlainBase26(_)
col_to_name_PlainBase26(col) ==
    IF col < 26 THEN <<UpperLetters[(col % 26) + 1]>>
    ELSE col_to_name_PlainBase26(col \div 26) \o <<UpperLetters[(col % 26) + 1]>>
RECURSIVE col_to_name(_)
col_to_name(col) ==
    IF col < 26 THEN <<UpperLetters[(col % 26) + 1]>>
    ELSE col_to_name((col \div 26) - 1) \o <<UpperLetters[(col % 26) + 1]>>

cell_name(col, row) == col_to_name(col) \o NatToStr(row + 1)

(***************************************************************************)
(* formula.rs: the rewriting scanners.  Both adjust_formula and            *)
(* adjust_formula_for_structure_change walk the characters with an index   *)
(* i, copy a double-quoted run verbatim, and otherwise try to read         *)
(* $?letters$?digits at i.                                                 *)
(***************************************************************************)
RECURSIVE EndOfLetters(_, _)
EndOfLetters(chars, i) ==
    IF i <= Len(chars) /\ is_ascii_alphabetic(chars[i])
    THEN EndOfLetters(chars, i + 1) ELSE i
RECURSIVE EndOfDigits(_, _)
EndOfDigits(chars, i) ==
    IF i <= Len(chars) /\ is_ascii_digit(chars[i])
    THEN EndOfDigits(chars, i + 1) ELSE i
RECURSIVE EndOfQuoted(_, _)
\* index of the closing quote of a string literal whose content starts at i,
\* or Len(chars) when it is unterminated
EndOfQuoted(chars, i) ==
    IF i > Len(chars) THEN Len(chars)
    ELSE IF chars[i] = "\"" THEN i
    ELSE EndOfQuoted(chars, i + 1)

\* the token read at position i (1-based): where it ends and its parts
ReadRefToken(chars, i) ==
    LET token(col_abs, row_abs, i1, i2, i3, i4) ==
          [col_abs |-> col_abs, row_abs |-> row_abs,
           col_str |-> to_uppercase(SubSeq(chars, i1, i2 - 1)),
           row_str |-> SubSeq(chars, i3, i4 - 1), next |-> i4]
        digits(col_abs, row_abs, i1, i2, i3) ==
          token(col_abs, row_abs, i1, i2, i3, EndOfDigits(chars, i3))
        row_mark(col_abs, row_abs, i1, i2) ==
          digits(col_abs, row_abs, i1, i2, IF row_abs THEN i2 + 1 ELSE i2)
        letters(col_abs, i1, i2) ==
          row_mark(col_abs, i2 <= Len(chars) /\ chars[i2] = "$", i1, i2)
        col_mark(col_abs, i1) == letters(col_abs, i1, EndOfLetters(chars, i1))
    IN  col_mark(chars[i] = "$", IF chars[i] = "$" THEN i + 1 ELSE i)

FormatRef(col, row, col_abs, row_abs) ==
    (IF col_abs THEN <<"$">> ELSE <<>>) \o col_to_name(col)
    \o (IF row_abs THEN <<"$">> ELSE <<>>) \o NatToStr(row + 1)

Max(a, b) == IF a >= b THEN a ELSE b
Min(a, b) == IF a <= b THEN a ELSE b

RECURSIVE adjust_formula_loop(_, _, _, _, _)
adjust_formula_loop_reference(t, col, row, chars, result, col_offset, row_offset) ==
    adjust_formula_loop(chars, t.next,
        result \o FormatRef(IF t.col_abs THEN col ELSE Max(col + col_offset, 0),
                            IF t.row_abs THEN row ELSE Max(row + row_offset, 0),
                            t.col_abs, t.row_abs),
        col_offset, row_offset)
adjust_formula_loop_token(t, row1, chars, result, col_offset, row_offset, i) ==
    IF t.col_str # <<>> /\ t.row_str # <<>> /\ row1.ok
    THEN adjust_formula_loop_reference(t, ColIndex1(t.col_str) - 1, Max(row1.n - 1, 0), chars, result, col_offset, row_offset)
    ELSE IF t.next = i
    THEN adjust_formula_loop(chars, i + 1, result \o <<chars[i]>>,
                             col_offset, row_offset)
    ELSE adjust_formula_loop(chars, t.next,
                             result \o SubSeq(chars, i, t.next - 1),
                             col_offset, row_offset)
adjust_formula_loop_read(t, chars, result, col_offset, row_offset, i) ==
    adjust_formula_loop_token(t, parse_usize(t.row_str), chars, result, col_offset, row_offset, i)
adjust_formula_loop(chars, i, result, col_offset, row_offset) ==
    LET quoted(j) ==
          adjust_formula_loop(chars, j + 1, result \o SubSeq(chars, i, j),
                              col_offset, row_offset)
    IN  IF i > Len(chars) THEN result
        ELSE IF chars[i] = "\"" THEN quoted(EndOfQuoted(chars, i + 1))
        ELSE adjust_formula_loop_read(ReadRefToken(chars, i), chars, result, col_offset, row_offset, i)

adjust_formula(formula, col_offset, row_offset) ==
    adjust_formula_loop(formula, 1, <<>>, col_offset, row_offset)

\* StructureChange: [kind |-> "RowInsert" | "RowDelete" | "ColInsert" | "ColDelete", at]
ApplyStructureChange_DeleteKeepsBeyond(col, row, change) ==
    CASE change.kind = "RowInsert" ->
           IF row >= change.at THEN [col |-> col, row |-> row + 1, err |-> FALSE]
           ELSE [col |-> col, row |-> row, err |-> FALSE]
      [] change.kind = "RowDelete" ->
           IF row = change.at THEN [col |-> col, row |-> row, err |-> TRUE]
           ELSE [col |-> col, row |-> row, err |-> FALSE]
      [] change.kind = "ColInsert" ->
           IF col >= change.at THEN [col |-> col + 1, row |-> row, err |-> FALSE]
           ELSE [col |-> col, row |-> row, err |-> FALSE]
      [] change.kind = "ColDelete" ->
           IF col = change.at THEN [col |-> col, row |-> row, err |-> TRUE]
           ELSE [col |-> col, row |-> row, err |-> FALSE]
ApplyStructureChange_InsertBelowOnly(col, row, change) ==
    CASE change.kind = "RowInsert" ->
           IF row > change.at THEN [col |-> col, row |-> row + 1, err |-> FALSE]
           ELSE [col |-> col, row |-> row, err |-> FALSE]
      [] change.kind = "RowDelete" ->
           IF row = change.at THEN [col |-> col, row |-> row, err |-> TRUE]
           ELSE IF row > change.at THEN [col |-> col, row |-> row - 1, err |-> FALSE]
           ELSE [col |-> col, row |-> row, err |-> FALSE]
      [] change.kind = "ColInsert" ->
           IF col > change.at THEN [col |-> col + 1, row |-> row, err |-> FALSE]
           ELSE [col |-> col, row |-> row, err |-> FALSE]
      [] change.kind = "ColDelete" ->
           IF col = change.at THEN [col |-> col, row |-> row, err |-> TRUE]
           ELSE IF col > change.at THEN [col |-> col - 1, row |-> row, err |-> FALSE]
           ELSE [col |-> col, row |-> row, err |-> FALSE]
ApplyStructureChange(col, row, change) ==
    CASE change.kind = "RowInsert" ->
           IF row >= change.at THEN [col |-> col, row |-> row + 1, err |-> FALSE]
           ELSE [col |-> col, row |-> row, err |-> FALSE]
      [] change.kind = "RowDelete" ->
           IF row = change.at THEN [col |-> col, row |-> row, err |-> TRUE]
           ELSE IF row > change.at THEN [col |-> col, row |-> row - 1, err |-> FALSE]
           ELSE [col |-> col, row |-> row, err |-> FALSE]
      [] change.kind = "ColInsert" ->
           IF col >= change.at THEN [col |-> col + 1, row |-> row, err |-> FALSE]
           ELSE [col |-> col, row |-> row, err |-> FALSE]
      [] change.kind = "ColDelete" ->
           IF col = change.at THEN [col |-> col, row |-> row, err |-> TRUE]
           ELSE IF col > change.at THEN [col |-> col - 1, row |-> row, err |-> FALSE]
           ELSE [col |-> col, row |-> row, err |-> FALSE]

RECURSIVE structure_change_loop(_, _, _, _)
structure_change_loop_reference(t, n, chars, result, change) ==
    structure_change_loop(chars, t.next,
        result \o (IF n.err THEN <<"#","R","E","F","!">>
                   ELSE FormatRef(n.col, n.row, t.col_abs, t.row_abs)),
        change)
structure_change_loop_token(t, row1, change, chars, result, i) ==
    IF t.col_str # <<>> /\ t.row_str # <<>> /\ row1.ok /\ row1.n > 0
    THEN structure_change_loop_reference(t, ApplyStructureChange(ColIndex1(t.col_str) - 1, row1.n - 1, change), chars, result, change)
    ELSE IF t.next = i
    THEN structure_change_loop(chars, i + 1, result \o <<chars[i]>>, change)
    ELSE structure_change_loop(chars, t.next,
                               result \o SubSeq(chars, i, t.next - 1), change)
structure_change_loop_read(t, change, chars, result, i) ==
    structure_change_loop_token(t, parse_usize(t.row_str), change, chars, result, i)
structure_change_loop(chars, i, result, change) ==
    LET quoted(j) ==
          structure_change_loop(chars, j + 1, result \o SubSeq(chars, i, j), change)
    IN  IF i > Len(chars) THEN result
        ELSE IF chars[i] = "\"" THEN quoted(EndOfQuoted(chars, i + 1))
        ELSE structure_change_loop_read(ReadRefToken(chars, i), change, chars, result, i)

adjust_formula_for_structure_change(formula, change) ==
    structure_change_loop(formula, 1, <<>>, change)

adjust_formula_for_row_insert(formula, inserted_row) ==
    adjust_formula_for_structure_change(formula, [kind |-> "RowInsert", at |-> inserted_row])
adjust_formula_for_row_delete(formula, deleted_row) ==
    adjust_formula_for_structure_change(formula, [kind |-> "RowDelete", at |-> deleted_row])
adjust_formula_for_col_insert(formula, inserted_col) ==
    adjust_formula_for_structure_change(formula, [kind |-> "ColInsert", at |-> inserted_col])
adjust_formula_for_col_delete(formula, deleted_col) ==
    adjust_formula_for_structure_change(formula, [kind |-> "ColDelete", at |-> deleted_col])

(***************************************************************************)
(* sheet.rs: the sparse cell store.  cells is a function whose domain is   *)
(* the set of present keys <<col, row>>; col_widths likewise.              *)
(***************************************************************************)
EmptyMap == [k \in {} |-> 0]
MapInsert(f, key, v) == [k \in (DOMAIN f) \cup {key} |-> IF k = key THEN v ELSE f[k]]
MapRemove(f, key) == [k \in (DOMAIN f) \ {key} |-> f[k]]

None == [some |-> FALSE, v |-> 0]
Some(v) == [some |-> TRUE, v |-> v]
unwrap_or(opt, d) == IF opt.some THEN opt.v ELSE d
SetMax(S) == IF S = {} THEN None ELSE Some(CHOOSE x \in S : \A y \in S : y <= x)
SetMin(S) == IF S = {} THEN None ELSE Some(CHOOSE x \in S : \A y \in S : x <= y)

Sheet_new == [name |-> "Sheet1", cells |-> EmptyMap, col_widths |-> EmptyMap]

get_col_width(sh, col) ==
    IF col \in DOMAIN sh.col_widths THEN sh.col_widths[col] ELSE DEFAULT_COL_WIDTH

set_col_width(sh, col, width) ==
    LET w == Min(Max(width, MIN_COL_WIDTH), MAX_COL_WIDTH)
    IN  IF w = DEFAULT_COL_WIDTH
        THEN [sh EXCEPT !.col_widths = MapRemove(@, col)]
        ELSE [sh EXCEPT !.col_widths = MapInsert(@, col, w)]

adjust_col_width(sh, col, delta) ==
    set_col_width(sh, col,
        Min(Max(get_col_width(sh, col) + delta, MIN_COL_WIDTH), MAX_COL_WIDTH))

get_cell(sh, col, row) ==
    IF <<col, row>> \in DOMAIN sh.cells THEN sh.cells[<<col, row>>] ELSE Cell_default

set_cell(sh, col, row, input) ==
    IF trim(input) = <<>>
    THEN [sh EXCEPT !.cells = MapRemove(@, <<col, row>>)]
    ELSE [sh EXCEPT !.cells = MapInsert(@, <<col, row>>, Cell_new(input, parse_input(input)))]

clear_cell(sh, col, row) == [sh EXCEPT !.cells = MapRemove(@, <<col, row>>)]

max_row(sh) == SetMax({k[2] : k \in DOMAIN sh.cells})
max_col(sh) == SetMax({k[1] : k \in DOMAIN sh.cells})
max_col_in_row(sh, row) == SetMax({k[1] : k \in {q \in DOMAIN sh.cells : q[2] = row}})
max_row_in_col(sh, col) == SetMax({k[2] : k \in {q \in DOMAIN sh.cells : q[1] = col}})
first_non_empty_col_in_row(sh, row) ==
    SetMin({k[1] : k \in {q \in DOMAIN sh.cells : q[2] = row}})
first_non_empty_row_in_col(sh, col) ==
    SetMin({k[2] : k \in {q \in DOMAIN sh.cells : q[1] = col}})

\* remove the keys in moved, then insert each at Dest(key): the collect /
\* remove / insert passes common to the row, column and shift operations
MoveCells(cells, moved, Dest(_)) ==
    LET stay == (DOMAIN cells) \ moved
    IN  [k \in stay \cup {Dest(m) : m \in moved} |->
            IF \E m \in moved : Dest(m) = k
            THEN cells[CHOOSE m \in moved : Dest(m) = k]
            ELSE cells[k]]

delete_row(sh, row) ==
    LET kept == [k \in {q \in DOMAIN sh.cells : q[2] # row} |-> sh.cells[k]]
    IN  [sh EXCEPT !.cells =
            MoveCells(kept, {q \in DOMAIN kept : q[2] > row},
                      LAMBDA k : <<k[1], k[2] - 1>>)]

insert_row(sh, row) ==
    [sh EXCEPT !.cells =
        MoveCells(sh.cells, {q \in DOMAIN sh.cells : q[2] >= row},
                  LAMBDA k : <<k[1], k[2] + 1>>)]

delete_col(sh, col) ==
    LET kept == [k \in {q \in DOMAIN sh.cells : q[1] # col} |-> sh.cells[k]]
    IN  [sh EXCEPT !.cells =
            MoveCells(kept, {q \in DOMAIN kept : q[1] > col},
                      LAMBDA k : <<k[1] - 1, k[2]>>)]

insert_col(sh, col) ==
    [sh EXCEPT !.cells =
        MoveCells(sh.cells, {q \in DOMAIN sh.cells : q[1] >= col},
                  LAMBDA k : <<k[1] + 1, k[2]>>)]

\* FixupCell that keeps the value parsed from the text before the rewrite
FixupCell_StaleValue(cell, adjusted) ==
    IF starts_with(cell.raw_input, <<"=">>) /\ adjusted # cell.raw_input
    THEN Cell_new(adjusted, cell.value)
    ELSE cell

\* the body of the four adjust_formulas_for_* loops for one cell
FixupCell(cell, adjusted) ==
    IF starts_with(cell.raw_input, <<"=">>) /\ adjusted # cell.raw_input
    THEN Cell_new(adjusted, parse_input(adjusted))
    ELSE cell

adjust_formulas_for_row_insert(sh, inserted_row) ==
    [sh EXCEPT !.cells = [k \in DOMAIN sh.cells |->
        FixupCell(sh.cells[k], adjust_formula_for_row_insert(sh.cells[k].raw_input, inserted_row))]]
adjust_formulas_for_row_delete_Skipped(sh, deleted_row) == sh
adjust_formulas_for_row_delete(sh, deleted_row) ==
    [sh EXCEPT !.cells = [k \in DOMAIN sh.cells |->
        FixupCell(sh.cells[k], adjust_formula_for_row_delete(sh.cells[k].raw_input, deleted_row))]]
adjust_formulas_for_col_insert(sh, inserted_col) ==
    [sh EXCEPT !.cells = [k \in DOMAIN sh.cells |->
        FixupCell(sh.cells[k], adjust_formula_for_col_insert(sh.cells[k].raw_input, inserted_col))]]
adjust_formulas_for_col_delete(sh, deleted_col) ==
    [sh EXCEPT !.cells = [k \in DOMAIN sh.cells |->
        FixupCell(sh.cells[k], adjust_formula_for_col_delete(sh.cells[k].raw_input, deleted_col))]]

\* shift_cells_right that takes the cells of every row from column col on
shift_cells_right_EveryRow(sh, col, row) ==
    [sh EXCEPT !.cells =
        MoveCells(sh.cells, {q \in DOMAIN sh.cells : q[1] >= col},
                  LAMBDA k : <<k[1] + 1, k[2]>>)]

shift_cells_right(sh, col, row) ==
    [sh EXCEPT !.cells =
        MoveCells(sh.cells, {q \in DOMAIN sh.cells : q[2] = row /\ q[1] >= col},
                  LAMBDA k : <<k[1] + 1, k[2]>>)]

shift_cells_down(sh, col, row) ==
    [sh EXCEPT !.cells =
        MoveCells(sh.cells, {q \in DOMAIN sh.cells : q[1] = col /\ q[2] >= row},
                  LAMBDA k : <<k[1], k[2] + 1>>)]

(***************************************************************************)
(* Number formatting (cell.rs format_number with DisplayFormat::General,   *)
(* the only format Cell::new ever sets, and engine.rs to_string).          *)
(***************************************************************************)
\* Decimal expansion by long division, so that no intermediate value leaves
\* the integers of the checker: k fractional digits of rem/d, and the
\* remainder left after them.
RECURSIVE FracDigits(_, _, _)
FracDigits(rem, d, k) ==
    IF k = 0 THEN <<>>
    ELSE <<(rem * 10) \div d>> \o FracDigits((rem * 10) % d, d, k - 1)

RECURSIVE FracRem(_, _, _)
FracRem(rem, d, k) == IF k = 0 THEN rem ELSE FracRem((rem * 10) % d, d, k - 1)

RECURSIVE DigitsIncr(_)
\* ds + 1 in the last place: [carry, ds]
DigitsIncr(ds) ==
    IF ds = <<>> THEN [carry |-> 1, ds |-> <<>>]
    ELSE IF ds[Len(ds)] < 9
    THEN [carry |-> 0, ds |-> [ds EXCEPT ![Len(ds)] = @ + 1]]
    ELSE LET r == DigitsIncr(SubSeq(ds, 1, Len(ds) - 1))
         IN  [carry |-> r.carry, ds |-> Append(r.ds, 0)]

DigitsToStr(ds) == [i \in 1..Len(ds) |-> DigitChars[ds[i] + 1]]

RECURSIVE trim_end_zeros(_)
trim_end_zeros(s) ==
    IF s # <<>> /\ s[Len(s)] = "0" THEN trim_end_zeros(SubSeq(s, 1, Len(s) - 1)) ELSE s

\* format!("{:.k}", n) of the rational r: round to nearest, ties to even
FormatFixed(r, k) ==
    LET written(ip, inc) ==
          (IF r.num < 0 THEN <<"-">> ELSE <<>>)
          \o NatToStr(ip + inc.carry)
          \o (IF k = 0 THEN <<>> ELSE <<".">> \o DigitsToStr(inc.ds))
        rounded(ip, ds, up) ==
          written(ip, IF up THEN DigitsIncr(ds) ELSE [carry |-> 0, ds |-> ds])
        digits(ip, ds, rk, last) ==
          rounded(ip, ds, 2 * rk > r.den \/ (2 * rk = r.den /\ last % 2 = 1))
        expanded(ip, rem, ds) ==
          digits(ip, ds, FracRem(rem, r.den, k), IF k = 0 THEN ip ELSE ds[k])
        divided(ip, rem) == expanded(ip, rem, FracDigits(rem, r.den, k))
    IN  divided(Abs(r.num) \div r.den, Abs(r.num) % r.den)

RECURSIVE SciNorm(_, _, _)
\* n/d > 0 scaled into [1, 10): [n, d, e] with n/d * 10^e the original value
SciNorm(n, d, e) ==
    IF n < d THEN SciNorm(n * 10, d, e - 1)
    ELSE IF n >= 10 * d THEN SciNorm(n, d * 10, e + 1)
    ELSE [n |-> n, d |-> d, e |-> e]

FormatSci2_written(m, e, r) ==
    (IF r.num < 0 THEN <<"-">> ELSE <<>>)
    \o m \o <<"e">> \o (IF e < 0 THEN <<"-">> ELSE <<>>) \o NatToStr(Abs(e))
FormatSci2_mantissa(s, m, r) ==
    IF m[1] = "1" /\ Len(m) = 5 THEN FormatSci2_written(<<"1", ".", "0", "0">>, s.e + 1, r)
    ELSE FormatSci2_written(m, s.e, r)
FormatSci2_scaled(s, r) ==
    FormatSci2_mantissa(s, FormatFixed([num |-> s.n, den |-> s.d], 2), r)
\* format!("{:.2e}", n)
FormatSci2(r) ==
    IF r.num = 0 THEN <<"0", "e", "0">>
    ELSE FormatSci2_scaled(SciNorm(Abs(r.num), r.den, 0), r)

TrimFraction(f) ==
    LET trimmed(t) == IF t # <<>> /\ t[Len(t)] = "." THEN SubSeq(t, 1, Len(t) - 1) ELSE t
    IN  trimmed(trim_end_zeros(f))

\* Cell::format_number, DisplayFormat::General.  Every number of the model is
\* below 2^31 in magnitude, so the test n.abs() < 1e10 of the code is true of
\* all of them and n.abs() >= 1e10 of none.
format_number(r) ==
    IF r.den = 1 THEN FormatFixed(r, 0)
    ELSE IF Abs(r.num) * 10000 < r.den THEN FormatSci2(r)
    ELSE TrimFraction(FormatFixed(r, 6))

\* format!("{}", n) for a non-integer f64: the shortest decimal that reads back
\* as n, which for a terminating decimal is its exact expansion
FormatShortest(r) ==
    (IF r.num < 0 THEN <<"-">> ELSE <<>>)
    \o TrimFraction(NatToStr(Abs(r.num) \div r.den) \o <<".">>
                    \o DigitsToStr(FracDigits(Abs(r.num) % r.den, r.den, 16)))

(***************************************************************************)
(* engine.rs: free functions.                                              *)
(***************************************************************************)
Ok(v) == [ok |-> TRUE, v |-> v, e |-> <<>>]
Err(e) == [ok |-> FALSE, v |-> Empty, e |-> e]
VALUE_ERR == <<"#","V","A","L","U","E","!">>
NAME_ERR == <<"#","N","A","M","E","?">>
NumOk(r) == [ok |-> TRUE, r |-> r, e |-> <<>>]
NumErr(e) == [ok |-> FALSE, r |-> [num |-> 0, den |-> 1], e |-> e]

RECURSIVE split_args_loop(_, _, _, _, _, _)
split_args_loop(chars, i, args, current, depth, in_string) ==
    IF i > Len(chars)
    THEN IF current # <<>> THEN Append(args, trim(current)) ELSE args
    ELSE LET c == chars[i]
         IN  IF c = "\""
             THEN split_args_loop(chars, i + 1, args, Append(current, c), depth, ~in_string)
             ELSE IF c = "(" /\ ~in_string
             THEN split_args_loop(chars, i + 1, args, Append(current, c), depth + 1, in_string)
             ELSE IF c = ")" /\ ~in_string
             THEN split_args_loop(chars, i + 1, args, Append(current, c), depth - 1, in_string)
             ELSE IF c = "," /\ depth = 0 /\ ~in_string
             THEN split_args_loop(chars, i + 1, Append(args, trim(current)), <<>>, depth, in_string)
             ELSE split_args_loop(chars, i + 1, args, Append(current, c), depth, in_string)

split_args(args_str) == split_args_loop(args_str, 1, <<>>, <<>>, 0, FALSE)

to_number(val) ==
    CASE val.tag = "Number"  -> NumOk([num |-> val.num, den |-> val.den])
      [] val.tag = "Boolean" -> NumOk(IF val.b THEN Rat(1, 1) ELSE Rat(0, 1))
      [] val.tag = "Empty"   -> NumOk(Rat(0, 1))
      [] val.tag = "Text"    -> LET parsed(p) == IF p.ok THEN NumOk(p.r) ELSE NumErr(VALUE_ERR)
                                IN  parsed(parse_f64(val.s))
      [] val.tag = "Error"   -> NumErr(CellError_to_string(val.e))
      [] val.tag = "Formula" -> NumErr(VALUE_ERR)

to_string(val) ==
    CASE val.tag = "Number"  ->
           IF val.den = 1
           THEN FormatFixed([num |-> val.num, den |-> val.den], 0)
           ELSE FormatShortest([num |-> val.num, den |-> val.den])
      [] val.tag = "Text"    -> val.s
      [] val.tag = "Boolean" -> IF val.b THEN <<"T","R","U","E">> ELSE <<"F","A","L","S","E">>
      [] val.tag = "Empty"   -> <<>>
      [] val.tag = "Error"   -> CellError_to_string(val.e)
      [] val.tag = "Formula" -> <<>>

\* Result<bool, String> as [ok, b, e]
to_bool(val) ==
    CASE val.tag = "Boolean" -> [ok |-> TRUE, b |-> val.b, e |-> <<>>]
      [] val.tag = "Number"  -> [ok |-> TRUE, b |-> val.num # 0, e |-> <<>>]
      [] val.tag = "Text"    ->
           IF eq_ignore_ascii_case(val.s, <<"t","r","u","e">>)
           THEN [ok |-> TRUE, b |-> TRUE, e |-> <<>>]
           ELSE IF eq_ignore_ascii_case(val.s, <<"f","a","l","s","e">>)
           THEN [ok |-> TRUE, b |-> FALSE, e |-> <<>>]
           ELSE [ok |-> FALSE, b |-> FALSE, e |-> VALUE_ERR]
      [] OTHER -> [ok |-> FALSE, b |-> FALSE, e |-> VALUE_ERR]

RatLt(a, b) == a.num * b.den < b.num * a.den
RatEq(a, b) == a.num * b.den = b.num * a.den
RatOf(val) == [num |-> val.num, den |-> val.den]

\* (l - r).abs() < f64::EPSILON.  Two distinct numbers of the model differ by at
\* least 1 / (a.den * b.den), which is above 2^-31 and so above EPSILON = 2^-52:
\* the test is equality of the two values.
NearlyEqual(a, b) == a.num * b.den = b.num * a.den

cell_eq(a, b) ==
    IF a.tag = "Number" /\ b.tag = "Number" THEN NearlyEqual(RatOf(a), RatOf(b))
    ELSE IF a.tag = "Text" /\ b.tag = "Text" THEN to_uppercase(a.s) = to_uppercase(b.s)
    ELSE FALSE

cell_lte(a, b) ==
    a.tag = "Number" /\ b.tag = "Number" /\ ~RatLt(RatOf(b), RatOf(a))

\* positions are 0-based as in the code; -1 stands for None
RECURSIVE find_operator_loop(_, _, _, _, _)
find_operator_loop(chars, op, i, depth, in_string) ==
    IF i >= Len(chars) THEN -1
    ELSE LET c == chars[i + 1]
         IN  IF c = "\"" THEN find_operator_loop(chars, op, i + 1, depth, ~in_string)
             ELSE IF in_string THEN find_operator_loop(chars, op, i + 1, depth, in_string)
             ELSE IF c = "(" THEN find_operator_loop(chars, op, i + 1, depth + 1, in_string)
             ELSE IF c = ")" THEN find_operator_loop(chars, op, i + 1, depth - 1, in_string)
             ELSE IF depth = 0 /\ i + Len(op) <= Len(chars)
                     /\ SubSeq(chars, i + 1, i + Len(op)) = op
             THEN i
             ELSE find_operator_loop(chars, op, i + 1, depth, in_string)

find_operator(expr, op) == find_operator_loop(expr, op, 0, 0, FALSE)

RECURSIVE find_operator_rtl_loop(_, _, _, _, _)
find_operator_rtl_loop(chars, ops, i, depth, in_string) ==
    IF i < 0 THEN -1
    ELSE LET c == chars[i + 1]
         IN  IF c = "\"" THEN find_operator_rtl_loop(chars, ops, i - 1, depth, ~in_string)
             ELSE IF in_string THEN find_operator_rtl_loop(chars, ops, i - 1, depth, in_string)
             ELSE IF c = ")" THEN find_operator_rtl_loop(chars, ops, i - 1, depth + 1, in_string)
             ELSE IF c = "(" THEN find_operator_rtl_loop(chars, ops, i - 1, depth - 1, in_string)
             ELSE IF depth = 0 /\ c \in ops
             THEN IF c \in {"+", "-"} /\ i > 0 /\ to_ascii_uppercase(chars[i]) = "E"
                  THEN find_operator_rtl_loop(chars, ops, i - 1, depth, in_string)
                  ELSE IF c = "-" /\ i = 0
                  THEN find_operator_rtl_loop(chars, ops, i - 1, depth, in_string)
                  ELSE i
             ELSE find_operator_rtl_loop(chars, ops, i - 1, depth, in_string)

find_operator_rtl(expr, ops) == find_operator_rtl_loop(expr, ops, Len(expr) - 1, 0, FALSE)

RECURSIVE find_matching_paren_loop(_, _, _)
find_matching_paren_loop(chars, i, depth) ==
    IF i >= Len(chars) THEN -1
    ELSE IF chars[i + 1] = "(" THEN find_matching_paren_loop(chars, i + 1, depth + 1)
    ELSE IF chars[i + 1] = ")"
    THEN IF depth - 1 = 0 THEN i ELSE find_matching_paren_loop(chars, i + 1, depth - 1)
    ELSE find_matching_paren_loop(chars, i + 1, depth)

find_matching_paren(expr, start) == find_matching_paren_loop(expr, start, 0)

RatAdd(a, b) == Rat(a.num * b.den + b.num * a.den, a.den * b.den)
RatSub(a, b) == Rat(a.num * b.den - b.num * a.den, a.den * b.den)
RatMul(a, b) == Rat(a.num * b.num, a.den * b.den)
RatDiv(a, b) == Rat(a.num * b.den, a.den * b.num)

arithmetic_apply(l, r, op) ==
    IF ~l.ok THEN Err(l.e)
    ELSE IF ~r.ok THEN Err(r.e)
    ELSE CASE op = "+" -> Ok(Number(RatAdd(l.r, r.r)))
           [] op = "-" -> Ok(Number(RatSub(l.r, r.r)))
           [] op = "*" -> Ok(Number(RatMul(l.r, r.r)))
           [] op = "/" -> IF r.r.num = 0 THEN Ok(Error("DivZero"))
                          ELSE Ok(Number(RatDiv(l.r, r.r)))
           [] OTHER -> Err(VALUE_ERR)
arithmetic(left, right, op) ==
    arithmetic_apply(to_number(left), to_number(right), op)

\* f64::powf for an integer exponent (the only exponents the model's inputs form)
PowF(a, b) ==
    IF b.num >= 0 THEN Rat(Pow(a.num, b.num), Pow(a.den, b.num))
    ELSE Rat(Pow(a.den, -b.num), Pow(a.num, -b.num))

power_apply(l, r) ==
    IF ~l.ok THEN Err(l.e)
    ELSE IF ~r.ok THEN Err(r.e)
    ELSE Ok(Number(PowF(l.r, r.r)))
power(left, right) ==
    power_apply(to_number(left), to_number(right))

\* the characters of the model's alphabets in ASCII order, for str comparison
AsciiOrder == <<"\t", " ", "!", "\"", "#", "$", "%", "&", "(", ")", "*", "+", ",",
                "-", ".", "/">> \o DigitChars \o <<":", "<", "=", ">", "?">>
              \o UpperLetters \o <<"^">> \o LowerLetters
CharOrd(c) == CHOOSE i \in 1..Len(AsciiOrder) : AsciiOrder[i] = c
RECURSIVE StrLt(_, _)
StrLt(a, b) ==
    IF b = <<>> THEN FALSE
    ELSE IF a = <<>> THEN TRUE
    ELSE IF Head(a) = Head(b) THEN StrLt(Tail(a), Tail(b))
    ELSE CharOrd(Head(a)) < CharOrd(Head(b))

CompareNum(l, r, op) ==
    CASE op = <<"=">> -> NearlyEqual(l, r)
      [] op \in {<<"<", ">">>, <<"!", "=">>} -> ~NearlyEqual(l, r)
      [] op = <<">">> -> RatLt(r, l)
      [] op = <<"<">> -> RatLt(l, r)
      [] op = <<">", "=">> -> ~RatLt(l, r)
      [] op = <<"<", "=">> -> ~RatLt(r, l)

CompareStr(l, r, op) ==
    CASE op = <<"=">> -> l = r
      [] op \in {<<"<", ">">>, <<"!", "=">>} -> l # r
      [] op = <<">">> -> StrLt(r, l)
      [] op = <<"<">> -> StrLt(l, r)
      [] op = <<">", "=">> -> ~StrLt(l, r)
      [] op = <<"<", "=">> -> ~StrLt(r, l)

compare_numbers(l, r, op) ==
    IF l.ok /\ r.ok THEN Ok(Boolean(CompareNum(l.r, r.r, op)))
    ELSE Err(VALUE_ERR)
compare(left, right, op) ==
    IF left.tag = "Number" /\ right.tag = "Number"
    THEN Ok(Boolean(CompareNum(RatOf(left), RatOf(right), op)))
    ELSE IF left.tag = "Text" /\ right.tag = "Text"
    THEN Ok(Boolean(CompareStr(left.s, right.s, op)))
    ELSE compare_numbers(to_number(left), to_number(right), op)

(***************************************************************************)
(* engine.rs: the Engine.  `cells` is the borrowed cell map, `st` the       *)
(* eval_stack at the call, and every result carries the eval_stack it      *)
(* leaves behind.  `fuel` bounds the nesting of evaluate_expr calls: a     *)
(* call that would nest deeper returns the result marked `x` (no result),  *)
(* which every caller hands up unchanged, so that `x` in the final result  *)
(* means the recursion went deeper than the fuel given.                    *)
(***************************************************************************)
EOk(v, st) == [ok |-> TRUE, v |-> v, e |-> <<>>, x |-> FALSE, stack |-> st]
EErr(e, st) == [ok |-> FALSE, v |-> Empty, e |-> e, x |-> FALSE, stack |-> st]
EOut(st) == [ok |-> FALSE, v |-> Empty, e |-> <<>>, x |-> TRUE, stack |-> st]
Lift(res, st) == [ok |-> res.ok, v |-> res.v, e |-> res.e, x |-> FALSE, stack |-> st]

RECURSIVE evaluate_expr(_, _, _, _)

evaluate_formula(cells, st, fuel, formula_str) ==
    LET expr == trim(formula_str)
    IN  IF ~starts_with(expr, <<"=">>) THEN EOk(Text(expr), st)
        ELSE evaluate_expr(cells, st, fuel, Tail(expr))

\* evaluate_cell without the eval_stack test
evaluate_cell_NoCycleCheck(cells, st, fuel, col, row) ==
    IF <<col, row>> \notin DOMAIN cells THEN EOk(Number(Rat(0, 1)), st)
    ELSE LET value == cells[<<col, row>>].value
         IN  CASE value.tag = "Empty" -> EOk(Number(Rat(0, 1)), st)
               [] value.tag = "Formula" ->
                    LET result == evaluate_formula(cells, st \cup {<<col, row>>}, fuel, value.s)
                    IN  [result EXCEPT !.stack = @ \ {<<col, row>>}]
               [] OTHER -> EOk(value, st)

\* evaluate_cell without the eval_stack.remove after the formula
evaluate_cell_NoRemove(cells, st, fuel, col, row) ==
    IF <<col, row>> \in st THEN EOk(Error("Cycle"), st)
    ELSE IF <<col, row>> \notin DOMAIN cells THEN EOk(Number(Rat(0, 1)), st)
    ELSE LET value == cells[<<col, row>>].value
         IN  CASE value.tag = "Empty" -> EOk(Number(Rat(0, 1)), st)
               [] value.tag = "Formula" ->
                    evaluate_formula(cells, st \cup {<<col, row>>}, fuel, value.s)
               [] OTHER -> EOk(value, st)

evaluate_cell(cells, st, fuel, col, row) ==
    IF <<col, row>> \in st THEN EOk(Error("Cycle"), st)
    ELSE IF <<col, row>> \notin DOMAIN cells THEN EOk(Number(Rat(0, 1)), st)
    ELSE LET value == cells[<<col, row>>].value
         IN  CASE value.tag = "Empty" -> EOk(Number(Rat(0, 1)), st)
               [] value.tag = "Formula" ->
                    LET result == evaluate_formula(cells, st \cup {<<col, row>>}, fuel, value.s)
                    IN  [result EXCEPT !.stack = @ \ {<<col, row>>}]
               [] OTHER -> EOk(value, st)

EvalPair_right(l, r) ==
    IF r.x \/ ~r.ok
    THEN [fail |-> TRUE, res |-> r, l |-> Empty, r |-> Empty, stack |-> r.stack]
    ELSE [fail |-> FALSE, res |-> r, l |-> l.v, r |-> r.v, stack |-> r.stack]
EvalPair_left(l, cells, fuel, rexpr) ==
    IF l.x \/ ~l.ok
    THEN [fail |-> TRUE, res |-> l, l |-> Empty, r |-> Empty, stack |-> l.stack]
    ELSE EvalPair_right(l, evaluate_expr(cells, l.stack, fuel, rexpr))
\* left and right operand in turn, each with `?`
EvalPair(cells, st, fuel, lexpr, rexpr) ==
    EvalPair_left(evaluate_expr(cells, st, fuel, lexpr), cells, fuel, rexpr)

RECURSIVE SplitOn(_, _, _, _)
\* str::split(ch)
SplitOn(chars, ch, i, current) ==
    IF i > Len(chars) THEN <<current>>
    ELSE IF chars[i] = ch THEN <<current>> \o SplitOn(chars, ch, i + 1, <<>>)
    ELSE SplitOn(chars, ch, i + 1, Append(current, chars[i]))

contains(chars, ch) == \E i \in 1..Len(chars) : chars[i] = ch

INVALID_RANGE == <<"I","n","v","a","l","i","d"," ","r","a","n","g","e">>
INVALID_CELL == <<"I","n","v","a","l","i","d"," ","c","e","l","l">>

parse_range_rect(s, w, h) ==
    [ok |-> TRUE, e |-> <<>>,
     cells |-> [k \in 1..(w * h) |-> <<s.col + ((k - 1) % w), s.row + ((k - 1) \div w)>>]]
parse_range_corners(s, e) ==
    IF ~s.some \/ ~e.some THEN [ok |-> FALSE, cells |-> <<>>, e |-> INVALID_RANGE]
    ELSE parse_range_rect(s, Max(e.col - s.col + 1, 0), Max(e.row - s.row + 1, 0))
parse_range_single(c) ==
    IF ~c.some THEN [ok |-> FALSE, cells |-> <<>>, e |-> INVALID_CELL]
    ELSE [ok |-> TRUE, e |-> <<>>, cells |-> <<<<c.col, c.row>>>>]
parse_range_split_range(parts) ==
    IF Len(parts) = 2 THEN parse_range_corners(parse_cell_ref(parts[1]), parse_cell_ref(parts[2]))
    ELSE IF Len(parts) = 1 THEN parse_range_single(parse_cell_ref(parts[1]))
    ELSE [ok |-> FALSE, cells |-> <<>>, e |-> INVALID_RANGE]
\* Result<Vec<(usize, usize)>, String> as [ok, cells, e]; rows outermost
parse_range(range_str) ==
    parse_range_split_range(SplitOn(range_str, ":", 1, <<>>))

RECURSIVE evaluate_cells(_, _, _, _, _, _)
\* self.evaluate_cell over a list of coordinates, in order
evaluate_cells(cells, st, fuel, coords, i, acc) ==
    IF i > Len(coords) THEN [x |-> FALSE, stack |-> st, items |-> acc]
    ELSE LET next(r) ==
               IF r.x THEN [x |-> TRUE, stack |-> r.stack, items |-> acc]
               ELSE evaluate_cells(cells, r.stack, fuel, coords, i + 1,
                                   Append(acc, [cell |-> TRUE, ok |-> r.ok, v |-> r.v, arg |-> <<>>]))
         IN  next(evaluate_cell(cells, st, fuel, coords[i][1], coords[i][2]))

RECURSIVE scan_args(_, _, _, _, _, _)
scan_args_evaluated(rs, acc, cells, fuel, args, i) ==
    IF rs.x
    THEN [ok |-> FALSE, e |-> <<>>, x |-> TRUE, stack |-> rs.stack, items |-> acc]
    ELSE scan_args(cells, rs.stack, fuel, args, i + 1, rs.items)
scan_args_range(rg, st, acc, cells, fuel, args, i) ==
    IF ~rg.ok
    THEN [ok |-> FALSE, e |-> rg.e, x |-> FALSE, stack |-> st, items |-> acc]
    ELSE scan_args_evaluated(evaluate_cells(cells, st, fuel, rg.cells, 1, acc), acc, cells, fuel, args, i)
scan_args_reference(ref, cells, st, fuel, acc, args, i, arg) ==
    IF ref.some
    THEN scan_args_evaluated(evaluate_cells(cells, st, fuel, <<<<ref.col, ref.row>>>>, 1, acc), acc, cells, fuel, args, i)
    ELSE scan_args(cells, st, fuel, args, i + 1,
                   Append(acc, [cell |-> FALSE, ok |-> FALSE, v |-> Empty, arg |-> arg]))
\* The argument loop shared by get_numeric_values, func_count and func_counta:
\* a range argument yields the result of each of its cells, a reference the
\* result of its cell, anything else the argument text itself.
scan_args(cells, st, fuel, args, i, acc) ==
    IF i > Len(args) THEN [ok |-> TRUE, e |-> <<>>, x |-> FALSE, stack |-> st, items |-> acc]
    ELSE LET arg == args[i]
         IN  IF contains(arg, ":") THEN scan_args_range(parse_range(arg), st, acc, cells, fuel, args, i)
             ELSE scan_args_reference(parse_cell_ref(arg), cells, st, fuel, acc, args, i, arg)

\* the failure of a scan as an evaluation result
ScanFail(sc) == IF sc.x THEN EOut(sc.stack) ELSE EErr(sc.e, sc.stack)

RECURSIVE numeric_items(_, _)
\* the values get_numeric_values pushes: only `Ok(CellValue::Number(n))` cell
\* results and arguments that parse as f64
numeric_items(items, i) ==
    IF i > Len(items) THEN <<>>
    ELSE LET it == items[i]
             parsed(n) == IF n.ok THEN <<n.r>> ELSE <<>>
         IN  (IF it.cell
              THEN IF it.ok /\ it.v.tag = "Number" THEN <<RatOf(it.v)>> ELSE <<>>
              ELSE parsed(parse_f64(it.arg)))
             \o numeric_items(items, i + 1)

get_numeric_values_scanned(sc) ==
    [ok |-> sc.ok, e |-> sc.e, x |-> sc.x, stack |-> sc.stack,
     values |-> IF sc.ok THEN numeric_items(sc.items, 1) ELSE <<>>]
\* Result<Vec<f64>, String> as [ok, e, x, stack, values]
get_numeric_values(cells, st, fuel, args_str) ==
    get_numeric_values_scanned(scan_args(cells, st, fuel, split_args(args_str), 1, <<>>))

RECURSIVE RatSum(_)
RatSum(values) == IF values = <<>> THEN Rat(0, 1) ELSE RatAdd(Head(values), RatSum(Tail(values)))
RECURSIVE RatMin(_)
RatMin(values) ==
    IF Len(values) = 1 THEN values[1]
    ELSE LET least(m) == IF RatLt(m, Head(values)) THEN m ELSE Head(values)
         IN  least(RatMin(Tail(values)))
RECURSIVE RatMax(_)
RatMax(values) ==
    IF Len(values) = 1 THEN values[1]
    ELSE LET greatest(m) == IF RatLt(Head(values), m) THEN m ELSE Head(values)
         IN  greatest(RatMax(Tail(values)))

func_sum_sum(g) ==
    IF ~g.ok THEN ScanFail(g) ELSE EOk(Number(RatSum(g.values)), g.stack)
func_sum(cells, st, fuel, args_str) ==
    func_sum_sum(get_numeric_values(cells, st, fuel, args_str))

func_average_average(g) ==
    IF ~g.ok THEN ScanFail(g)
    ELSE IF g.values = <<>> THEN EOk(Error("DivZero"), g.stack)
    ELSE EOk(Number(RatDiv(RatSum(g.values), Rat(Len(g.values), 1))), g.stack)
func_average(cells, st, fuel, args_str) ==
    func_average_average(get_numeric_values(cells, st, fuel, args_str))

func_count_count(g) ==
    IF ~g.ok THEN ScanFail(g) ELSE EOk(Number(Rat(Len(g.values), 1)), g.stack)
func_count(cells, st, fuel, args_str) ==
    func_count_count(get_numeric_values(cells, st, fuel, args_str))

func_counta_counted(sc) ==
    {i \in 1..Len(sc.items) :
       IF sc.items[i].cell THEN sc.items[i].ok /\ sc.items[i].v.tag # "Empty"
       ELSE sc.items[i].arg # <<>>}
func_counta_count(sc) ==
    IF ~sc.ok THEN ScanFail(sc) ELSE EOk(Number(Rat(Cardinality(func_counta_counted(sc)), 1)), sc.stack)
func_counta(cells, st, fuel, args_str) ==
    func_counta_count(scan_args(cells, st, fuel, split_args(args_str), 1, <<>>))

func_min_min(g) ==
    IF ~g.ok THEN ScanFail(g)
    ELSE IF g.values = <<>> THEN EOk(Number(Rat(0, 1)), g.stack)
    ELSE EOk(Number(RatMin(g.values)), g.stack)
func_min(cells, st, fuel, args_str) ==
    func_min_min(get_numeric_values(cells, st, fuel, args_str))

func_max_max(g) ==
    IF ~g.ok THEN ScanFail(g)
    ELSE IF g.values = <<>> THEN EOk(Number(Rat(0, 1)), g.stack)
    ELSE EOk(Number(RatMax(g.values)), g.stack)
func_max(cells, st, fuel, args_str) ==
    func_max_max(get_numeric_values(cells, st, fuel, args_str))

func_if_branch(args, condition, truth, cells, fuel) ==
    IF ~truth.ok THEN EErr(truth.e, condition.stack)
    ELSE IF truth.b THEN evaluate_expr(cells, condition.stack, fuel, args[2])
    ELSE IF Len(args) > 2 THEN evaluate_expr(cells, condition.stack, fuel, args[3])
    ELSE EOk(Boolean(FALSE), condition.stack)
func_if_decide(args, condition, cells, fuel) ==
    IF condition.x \/ ~condition.ok THEN condition
    ELSE func_if_branch(args, condition, to_bool(condition.v), cells, fuel)
func_if_call(args, st, cells, fuel) ==
    IF Len(args) < 2 THEN EErr(VALUE_ERR, st)
    ELSE func_if_decide(args, evaluate_expr(cells, st, fuel, args[1]), cells, fuel)
func_if(cells, st, fuel, args_str) ==
    func_if_call(split_args(args_str), st, cells, fuel)

func_len_len(val) ==
    IF val.x \/ ~val.ok THEN val
    ELSE EOk(Number(Rat(Len(to_string(val.v)), 1)), val.stack)
func_len(cells, st, fuel, args_str) ==
    func_len_len(evaluate_expr(cells, st, fuel, args_str))

func_upper_upper(val) ==
    IF val.x \/ ~val.ok THEN val ELSE EOk(Text(to_uppercase(to_string(val.v))), val.stack)
func_upper(cells, st, fuel, args_str) ==
    func_upper_upper(evaluate_expr(cells, st, fuel, args_str))

func_lower_lower(val) ==
    IF val.x \/ ~val.ok THEN val ELSE EOk(Text(to_lowercase(to_string(val.v))), val.stack)
func_lower(cells, st, fuel, args_str) ==
    func_lower_lower(evaluate_expr(cells, st, fuel, args_str))

func_abs_abs(val, n) ==
    IF ~n.ok THEN EErr(n.e, val.stack)
    ELSE EOk(Number(Rat(Abs(n.r.num), n.r.den)), val.stack)
func_abs_number(val) ==
    IF val.x \/ ~val.ok THEN val ELSE func_abs_abs(val, to_number(val.v))
func_abs(cells, st, fuel, args_str) ==
    func_abs_number(evaluate_expr(cells, st, fuel, args_str))

func_int_int(val, n) ==
    IF ~n.ok THEN EErr(n.e, val.stack)
    ELSE EOk(Number(Rat(n.r.num \div n.r.den, 1)), val.stack)
func_int_number(val) ==
    IF val.x \/ ~val.ok THEN val ELSE func_int_int(val, to_number(val.v))
func_int(cells, st, fuel, args_str) ==
    func_int_number(evaluate_expr(cells, st, fuel, args_str))

func_power_raised(p) ==
    IF p.fail THEN p.res ELSE Lift(power(p.l, p.r), p.stack)
func_power_call(args, st, cells, fuel) ==
    IF Len(args) < 2 THEN EErr(VALUE_ERR, st)
    ELSE func_power_raised(EvalPair(cells, st, fuel, args[1], args[2]))
func_power(cells, st, fuel, args_str) ==
    func_power_call(split_args(args_str), st, cells, fuel)

RECURSIVE func_and_or(_, _, _, _, _, _)
func_and_or_decide(val, truth, stop_on, cells, fuel, args, i) ==
    IF ~truth.ok THEN EErr(truth.e, val.stack)
    ELSE IF truth.b = stop_on THEN EOk(Boolean(stop_on), val.stack)
    ELSE func_and_or(cells, val.stack, fuel, args, i + 1, stop_on)
func_and_or_argument(val, stop_on, cells, fuel, args, i) ==
    IF val.x \/ ~val.ok THEN val ELSE func_and_or_decide(val, to_bool(val.v), stop_on, cells, fuel, args, i)
\* the loop of func_and (stop_on = FALSE) and of func_or (stop_on = TRUE): the
\* first argument whose truth value is stop_on decides, with `?` on both calls
func_and_or(cells, st, fuel, args, i, stop_on) ==
    IF i > Len(args) THEN EOk(Boolean(~stop_on), st)
    ELSE func_and_or_argument(evaluate_expr(cells, st, fuel, args[i]), stop_on, cells, fuel, args, i)

func_and(cells, st, fuel, args_str) == func_and_or(cells, st, fuel, split_args(args_str), 1, FALSE)
func_or(cells, st, fuel, args_str) == func_and_or(cells, st, fuel, split_args(args_str), 1, TRUE)

func_not_negate(val, truth) ==
    IF ~truth.ok THEN EErr(truth.e, val.stack) ELSE EOk(Boolean(~truth.b), val.stack)
func_not_argument(val) ==
    IF val.x \/ ~val.ok THEN val ELSE func_not_negate(val, to_bool(val.v))
func_not(cells, st, fuel, args_str) ==
    func_not_argument(evaluate_expr(cells, st, fuel, args_str))

func_iferror_fallback(args, first, cells, fuel) ==
    IF first.x THEN first
    ELSE IF ~first.ok \/ first.v.tag = "Error"
    THEN evaluate_expr(cells, first.stack, fuel, args[2])
    ELSE first
func_iferror_call(args, st, cells, fuel) ==
    IF Len(args) < 2 THEN EErr(VALUE_ERR, st)
    ELSE func_iferror_fallback(args, evaluate_expr(cells, st, fuel, args[1]), cells, fuel)
func_iferror(cells, st, fuel, args_str) ==
    func_iferror_call(split_args(args_str), st, cells, fuel)

func_isblank(cells, st, fuel, args_str) ==
    LET isblank(val) ==
          IF val.x \/ ~val.ok THEN val ELSE EOk(Boolean(val.v.tag = "Empty"), val.stack)
    IN  isblank(evaluate_expr(cells, st, fuel, args_str))

func_isnumber(cells, st, fuel, args_str) ==
    LET isnumber(val) ==
          IF val.x \/ ~val.ok THEN val ELSE EOk(Boolean(val.v.tag = "Number"), val.stack)
    IN  isnumber(evaluate_expr(cells, st, fuel, args_str))

func_istext(cells, st, fuel, args_str) ==
    LET istext(val) ==
          IF val.x \/ ~val.ok THEN val ELSE EOk(Boolean(val.v.tag = "Text"), val.stack)
    IN  istext(evaluate_expr(cells, st, fuel, args_str))

\* str::find('('), 0-based, -1 for None
find_paren(expr) ==
    IF contains(expr, "(") THEN (CHOOSE i \in 1..Len(expr) :
                                    expr[i] = "(" /\ \A j \in 1..(i - 1) : expr[j] # "(") - 1
    ELSE -1

\* Names try_function dispatches on that the model does not translate; no
\* formula the model's actions enter calls one of them.
NotModelledFunctions ==
    {<<"S","U","M","I","F">>, <<"C","O","U","N","T","I","F">>,
     <<"A","V","E","R","A","G","E","I","F">>, <<"V","L","O","O","K","U","P">>,
     <<"H","L","O","O","K","U","P">>, <<"I","N","D","E","X">>, <<"M","A","T","C","H">>,
     <<"L","E","F","T">>, <<"R","I","G","H","T">>, <<"M","I","D">>, <<"T","R","I","M">>,
     <<"R","O","U","N","D">>, <<"M","O","D">>, <<"S","Q","R","T">>,
     <<"C","O","N","C","A","T","E","N","A","T","E">>, <<"C","O","N","C","A","T">>}

ModelledFunctions ==
    {<<"S","U","M">>, <<"A","V","E","R","A","G","E">>, <<"A","V","G">>, <<"C","O","U","N","T">>,
     <<"C","O","U","N","T","A">>, <<"M","I","N">>, <<"M","A","X">>, <<"I","F">>, <<"L","E","N">>,
     <<"U","P","P","E","R">>, <<"L","O","W","E","R">>, <<"A","B","S">>, <<"I","N","T">>,
     <<"P","O","W","E","R">>, <<"A","N","D">>, <<"O","R">>, <<"N","O","T">>,
     <<"I","F","E","R","R","O","R">>, <<"I","S","B","L","A","N","K">>,
     <<"I","S","N","U","M","B","E","R">>, <<"I","S","T","E","X","T">>}

WithSome(r, some) ==
    [ok |-> r.ok, v |-> r.v, e |-> r.e, x |-> r.x, stack |-> r.stack, some |-> some]

try_function_result(func_name, args_str, cells, st, fuel) ==
    CASE func_name = <<"S","U","M">> -> func_sum(cells, st, fuel, args_str)
      [] func_name \in {<<"A","V","E","R","A","G","E">>, <<"A","V","G">>} ->
           func_average(cells, st, fuel, args_str)
      [] func_name = <<"C","O","U","N","T">> -> func_count(cells, st, fuel, args_str)
      [] func_name = <<"C","O","U","N","T","A">> -> func_counta(cells, st, fuel, args_str)
      [] func_name = <<"M","I","N">> -> func_min(cells, st, fuel, args_str)
      [] func_name = <<"M","A","X">> -> func_max(cells, st, fuel, args_str)
      [] func_name = <<"I","F">> -> func_if(cells, st, fuel, args_str)
      [] func_name = <<"L","E","N">> -> func_len(cells, st, fuel, args_str)
      [] func_name = <<"U","P","P","E","R">> -> func_upper(cells, st, fuel, args_str)
      [] func_name = <<"L","O","W","E","R">> -> func_lower(cells, st, fuel, args_str)
      [] func_name = <<"A","B","S">> -> func_abs(cells, st, fuel, args_str)
      [] func_name = <<"I","N","T">> -> func_int(cells, st, fuel, args_str)
      [] func_name = <<"P","O","W","E","R">> -> func_power(cells, st, fuel, args_str)
      [] func_name = <<"A","N","D">> -> func_and(cells, st, fuel, args_str)
      [] func_name = <<"O","R">> -> func_or(cells, st, fuel, args_str)
      [] func_name = <<"N","O","T">> -> func_not(cells, st, fuel, args_str)
      [] func_name = <<"I","F","E","R","R","O","R">> -> func_iferror(cells, st, fuel, args_str)
      [] func_name = <<"I","S","B","L","A","N","K">> -> func_isblank(cells, st, fuel, args_str)
      [] func_name = <<"I","S","N","U","M","B","E","R">> ->
           func_isnumber(cells, st, fuel, args_str)
      [] func_name = <<"I","S","T","E","X","T">> -> func_istext(cells, st, fuel, args_str)
try_function_call(func_name, args_str, none, cells, st, fuel) ==
    IF func_name \notin ModelledFunctions THEN none
    ELSE WithSome(try_function_result(func_name, args_str, cells, st, fuel), TRUE)
try_function_at(paren_pos, none, expr, cells, st, fuel) ==
    IF paren_pos = -1 THEN none
    ELSE IF ~ends_with(expr, <<")">>) THEN none
    ELSE try_function_call(to_uppercase(trim(SubSeq(expr, 1, paren_pos))),
              SubSeq(expr, paren_pos + 2, Len(expr) - 1), none, cells, st, fuel)
\* Result<Option<CellValue>, String>: the result record with `some`
try_function(cells, st, fuel, expr) ==
    LET none == WithSome(EOk(Empty, st), FALSE)
    IN  try_function_at(find_paren(expr), none, expr, cells, st, fuel)

CompareOps == << <<">", "=">>, <<"<", "=">>, <<"<", ">">>, <<"!", "=">>, <<"=">>, <<">">>, <<"<">> >>

\* index in CompareOps of the first operator the loop of evaluate_expr finds, 0 for none
FirstCompareOp(expr) ==
    LET first(found) == IF found = {} THEN 0 ELSE CHOOSE k \in found : \A j \in found : k <= j
    IN  first({k \in 1..Len(CompareOps) : find_operator(expr, CompareOps[k]) # -1})

evaluate_expr_compared(p, op) ==
    IF p.fail THEN p.res ELSE Lift(compare(p.l, p.r, op), p.stack)
evaluate_expr_joined(p) ==
    IF p.fail THEN p.res ELSE EOk(Text(to_string(p.l) \o to_string(p.r)), p.stack)
evaluate_expr_computed(p, op) ==
    IF p.fail THEN p.res ELSE Lift(arithmetic(p.l, p.r, op), p.stack)
evaluate_expr_raised(p) ==
    IF p.fail THEN p.res ELSE Lift(power(p.l, p.r), p.stack)
evaluate_expr_negated(val) ==
    IF val.x \/ ~val.ok THEN val
    ELSE IF val.v.tag = "Number" THEN EOk(Number(Rat(-val.v.num, val.v.den)), val.stack)
    ELSE EErr(VALUE_ERR, val.stack)
evaluate_expr_atom(expr, st, f, number, cref, cells) ==
    IF number.ok THEN EOk(Number(number.r), st)
    ELSE IF starts_with(expr, <<"\"">>) /\ ends_with(expr, <<"\"">>) /\ Len(expr) >= 2
    THEN EOk(Text(SubSeq(expr, 2, Len(expr) - 1)), st)
    ELSE IF eq_ignore_ascii_case(expr, <<"T","R","U","E">>) THEN EOk(Boolean(TRUE), st)
    ELSE IF eq_ignore_ascii_case(expr, <<"F","A","L","S","E">>) THEN EOk(Boolean(FALSE), st)
    ELSE IF cref.some THEN evaluate_cell(cells, st, f, cref.col, cref.row)
    ELSE EErr(NAME_ERR, st)
evaluate_expr_split(expr, st, f, pos, oplen, cells) ==
    EvalPair(cells, st, f, SubSeq(expr, 1, pos), SubSeq(expr, pos + oplen + 1, Len(expr)))
evaluate_expr_unary(expr, st, f, cells) ==
    IF starts_with(expr, <<"-">>) THEN evaluate_expr_negated(evaluate_expr(cells, st, f, Tail(expr)))
    ELSE evaluate_expr_atom(expr, st, f, parse_f64(expr), parse_cell_ref(expr), cells)
evaluate_expr_exponent(expr, st, f, pow, cells) ==
    IF pow # -1 THEN evaluate_expr_raised(evaluate_expr_split(expr, st, f, pow, 1, cells)) ELSE evaluate_expr_unary(expr, st, f, cells)
evaluate_expr_product(expr, st, f, mul, cells) ==
    IF mul # -1 THEN evaluate_expr_computed(evaluate_expr_split(expr, st, f, mul, 1, cells), expr[mul + 1])
    ELSE evaluate_expr_exponent(expr, st, f, find_operator_rtl(expr, {"^"}), cells)
evaluate_expr_sum(expr, st, f, add, cells) ==
    IF add # -1 /\ add > 0 THEN evaluate_expr_computed(evaluate_expr_split(expr, st, f, add, 1, cells), expr[add + 1])
    ELSE evaluate_expr_product(expr, st, f, find_operator_rtl(expr, {"*", "/"}), cells)
evaluate_expr_concat(expr, st, f, amp, cells) ==
    IF amp # -1 THEN evaluate_expr_joined(evaluate_expr_split(expr, st, f, amp, 1, cells))
    ELSE evaluate_expr_sum(expr, st, f, find_operator_rtl(expr, {"+", "-"}), cells)
evaluate_expr_comparison(expr, st, f, cmp, cells) ==
    IF cmp # 0
    THEN evaluate_expr_compared(evaluate_expr_split(expr, st, f, find_operator(expr, CompareOps[cmp]),
                        Len(CompareOps[cmp]), cells),
                  CompareOps[cmp])
    ELSE evaluate_expr_concat(expr, st, f, find_operator(expr, <<"&">>), cells)
evaluate_expr_parens(expr, st, f, end, cells) ==
    IF starts_with(expr, <<"(">>) /\ end # -1 /\ end = Len(expr) - 1
    THEN evaluate_expr(cells, st, f, SubSeq(expr, 2, end))
    ELSE evaluate_expr_comparison(expr, st, f, FirstCompareOp(expr), cells)
evaluate_expr_function(expr, f, tf, cells) ==
    IF tf.x \/ ~tf.ok \/ tf.some
    THEN [ok |-> tf.ok, v |-> tf.v, e |-> tf.e, x |-> tf.x, stack |-> tf.stack]
    ELSE evaluate_expr_parens(expr, tf.stack, f, find_matching_paren(expr, 0), cells)
evaluate_expr_trimmed(expr, f, cells, st0) ==
    evaluate_expr_function(expr, f, try_function(cells, st0, f, expr), cells)
evaluate_expr(cells, st0, fuel, expr0) ==
    IF fuel = 0 THEN EOut(st0) ELSE evaluate_expr_trimmed(trim(expr0), fuel - 1, cells, st0)

(***************************************************************************)
(* sheet.rs: Sheet::evaluate.                                              *)
(***************************************************************************)
RECURSIVE FormulaLengths(_, _)
\* the summed length of the formulas of the cells at `keys`
FormulaLengths(cells, keys) ==
    IF keys = {} THEN 0
    ELSE LET k == CHOOSE k \in keys : TRUE
         IN  (IF cells[k].value.tag = "Formula" THEN Len(cells[k].value.s) ELSE 0)
             + FormulaLengths(cells, keys \ {k})

\* The nesting of evaluate_expr calls one evaluation can reach if every nested
\* call takes a strictly shorter text and no formula cell is entered while it
\* is on the eval_stack: the formula evaluated, once, plus every formula cell.
EvalFuel(cells, f) == Len(f) + 1 + FormulaLengths(cells, DOMAIN cells)

display(value) ==
    CASE value.tag = "Empty"   -> <<>>
      [] value.tag = "Number"  -> format_number(RatOf(value))
      [] value.tag = "Text"    -> value.s
      [] value.tag = "Boolean" -> IF value.b THEN <<"T","R","U","E">> ELSE <<"F","A","L","S","E">>
      [] value.tag = "Error"   -> CellError_to_string(value.e)
      [] value.tag = "Formula" -> <<"E","R","R">>

\* Engine::new: the eval_stack of a fresh engine
Engine_new_eval_stack == {}

\* the engine run of Sheet::evaluate on a Formula cell
evaluate_run(sh, col, row) ==
    LET f == get_cell(sh, col, row).value.s
    IN  evaluate_formula(sh.cells, Engine_new_eval_stack, EvalFuel(sh.cells, f), f)

evaluate_result_shown(result) ==
    [s |-> IF result.ok THEN display(result.v) ELSE result.e,
     x |-> result.x, stack |-> result.stack, entry |-> Engine_new_eval_stack]
\* Sheet::evaluate: the String returned (s), with whether the engine ran out
\* of fuel (x), the eval_stack of the engine when it is dropped (stack) and
\* the eval_stack with which the formula of the cell was evaluated (entry)
evaluate_result(sh, col, row) ==
    LET cell == get_cell(sh, col, row)
    IN  IF cell.value.tag = "Formula" THEN evaluate_result_shown(evaluate_run(sh, col, row))
        ELSE [s |-> display(cell.value), x |-> FALSE, stack |-> {}, entry |-> {}]

evaluate(sh, col, row) == evaluate_result(sh, col, row).s

(***************************************************************************)
(* Text written as a literal: its characters, and back.                    *)
(***************************************************************************)
Chars(str) == [i \in 1..Len(str) |-> SubSeq(str, i, i)]
RECURSIVE Str(_)
Str(chars) == IF chars = <<>> THEN "" ELSE Head(chars) \o Str(Tail(chars))

(***************************************************************************)
(* main.rs: App::new.                                                      *)
(***************************************************************************)
\* App::update_status
StatusLine(m, col, row, ax, file) ==
    (CASE m = "Normal" -> "NORMAL"
       [] m = "EditSingle" -> "EDIT"
       [] m = "EditContinuous" -> "EDIT+"
       [] m = "EditPreserve" -> "EDIT"
       [] m = "Command" -> "COMMAND"
       [] m = "Visual" -> "VISUAL")
    \o " | " \o Str(cell_name(col, row)) \o " | "
    \o (IF ax = "Row" THEN "Row" ELSE "Col") \o " | " \o unwrap_or(file, "[New]")

\* no Sheet::evaluate call has returned since the Sheet last changed
\* no formula.rs function has been called
NoCall == [fn |-> "none"]
NoResult ==
    [valid |-> FALSE, col |-> 0, row |-> 0, s |-> <<>>, x |-> FALSE, stack |-> {}, entry |-> {}]

\* an event that neither cancels nor commits the cell under edit
PlainEvent == [kind |-> "plain", typed |-> FALSE]
\* no row or column was inserted or deleted
NoChange == [kind |-> "None", at |-> 0]
\* the event reads no file
NoRead == [readable |-> FALSE, json |-> None, lines |-> <<>>]

\* App::new(); op, change and event are history and file is the event's input,
\* see App below
App_new ==
    [sheet |-> Sheet_new, mode |-> "Normal", axis |-> "Row", input_buffer |-> <<>>,
     command_buffer |-> <<>>, status_message |-> StatusLine("Normal", 0, 0, "Row", None),
     cursor_col |-> 0, cursor_row |-> 0, view_col |-> 0, view_row |-> 0, clipboard |-> None,
     undo_stack |-> <<>>, redo_stack |-> <<>>, running |-> TRUE, pending_operator |-> None,
     count_buffer |-> <<>>, slash_pending |-> FALSE, visual_start_col |-> 0,
     visual_start_row |-> 0, edit_original |-> <<>>, last_search |-> <<>>,
     search_forward |-> TRUE, register_pending |-> FALSE, last_paste_cols |-> 0,
     last_paste_rows |-> 0, system_clipboard |-> <<>>, current_file |-> None,
     op |-> "other", change |-> NoChange, event |-> PlainEvent, file |-> NoRead]

\* the state holds the App b
AppIs(b) ==
    /\ sheet = b.sheet
    /\ mode = b.mode
    /\ axis = b.axis
    /\ input_buffer = b.input_buffer
    /\ command_buffer = b.command_buffer
    /\ status_message = b.status_message
    /\ cursor_col = b.cursor_col
    /\ cursor_row = b.cursor_row
    /\ view_col = b.view_col
    /\ view_row = b.view_row
    /\ clipboard = b.clipboard
    /\ undo_stack = b.undo_stack
    /\ redo_stack = b.redo_stack
    /\ running = b.running
    /\ pending_operator = b.pending_operator
    /\ count_buffer = b.count_buffer
    /\ slash_pending = b.slash_pending
    /\ visual_start_col = b.visual_start_col
    /\ visual_start_row = b.visual_start_row
    /\ edit_original = b.edit_original
    /\ last_search = b.last_search
    /\ search_forward = b.search_forward
    /\ register_pending = b.register_pending
    /\ last_paste_cols = b.last_paste_cols
    /\ last_paste_rows = b.last_paste_rows
    /\ system_clipboard = b.system_clipboard
    /\ current_file = b.current_file

\* App::new() with an empty Sheet; the history variables apart from rewrite
Started ==
    /\ AppIs(App_new)
    /\ trail = <<>>
    /\ edit_cursor = None
    /\ eval_result = NoResult
    /\ steps = 0

Init == Started /\ rewrite = NoCall

(***************************************************************************)
(* main.rs: the App.  Every method is an operator from the App before the  *)
(* call to the App after it.                                               *)
(***************************************************************************)
\* the App of the current state; op, change and event are history: op is set by
\* undo() and redo(), change by the callers of insert_row, delete_row, insert_col
\* and delete_col, event by the main loop; file is what the file system returns
\* for the file the event reads, if it reads one
App ==
    [sheet |-> sheet, mode |-> mode, axis |-> axis, input_buffer |-> input_buffer,
     command_buffer |-> command_buffer, status_message |-> status_message,
     cursor_col |-> cursor_col, cursor_row |-> cursor_row,
     view_col |-> view_col, view_row |-> view_row, clipboard |-> clipboard,
     undo_stack |-> undo_stack, redo_stack |-> redo_stack, running |-> running,
     pending_operator |-> pending_operator, count_buffer |-> count_buffer,
     slash_pending |-> slash_pending, visual_start_col |-> visual_start_col,
     visual_start_row |-> visual_start_row, edit_original |-> edit_original,
     last_search |-> last_search, search_forward |-> search_forward,
     register_pending |-> register_pending, last_paste_cols |-> last_paste_cols,
     last_paste_rows |-> last_paste_rows, system_clipboard |-> system_clipboard,
     current_file |-> current_file,
     op |-> "other", change |-> NoChange, event |-> PlainEvent, file |-> NoRead]

update_status(a) ==
    [a EXCEPT !.status_message =
                StatusLine(a.mode, a.cursor_col, a.cursor_row, a.axis, a.current_file)]

\* the mutant of save_undo: the snapshot is pushed and nothing is ever dropped
save_undo_NoCap(a) ==
    [a EXCEPT !.undo_stack = Append(a.undo_stack, a.sheet), !.redo_stack = <<>>]

save_undo(a) ==
    LET pushed == Append(a.undo_stack, a.sheet)
    IN  [a EXCEPT !.undo_stack = IF Len(pushed) > UNDO_LIMIT THEN Tail(pushed) ELSE pushed,
                  !.redo_stack = <<>>]

\* the mutant of undo: an empty undo stack is answered by emptying the redo stack
undo_EmptyClearsRedo(a) ==
    IF a.undo_stack # <<>>
    THEN [a EXCEPT !.undo_stack = SubSeq(a.undo_stack, 1, Len(a.undo_stack) - 1),
                   !.redo_stack = Append(a.redo_stack, a.sheet),
                   !.sheet = a.undo_stack[Len(a.undo_stack)],
                   !.status_message = "Undo", !.op = "undo"]
    ELSE [a EXCEPT !.redo_stack = <<>>, !.status_message = "Nothing to undo", !.op = "undo"]

undo(a) ==
    IF a.undo_stack # <<>>
    THEN [a EXCEPT !.undo_stack = SubSeq(a.undo_stack, 1, Len(a.undo_stack) - 1),
                   !.redo_stack = Append(a.redo_stack, a.sheet),
                   !.sheet = a.undo_stack[Len(a.undo_stack)],
                   !.status_message = "Undo", !.op = "undo"]
    ELSE [a EXCEPT !.status_message = "Nothing to undo", !.op = "undo"]

\* redo that leaves the snapshot it restores on the redo stack
redo_NoPop(a) ==
    IF a.redo_stack # <<>>
    THEN [a EXCEPT !.undo_stack = Append(a.undo_stack, a.sheet),
                   !.sheet = a.redo_stack[Len(a.redo_stack)],
                   !.status_message = "Redo", !.op = "redo"]
    ELSE [a EXCEPT !.status_message = "Nothing to redo", !.op = "redo"]

redo(a) ==
    IF a.redo_stack # <<>>
    THEN [a EXCEPT !.redo_stack = SubSeq(a.redo_stack, 1, Len(a.redo_stack) - 1),
                   !.undo_stack = Append(a.undo_stack, a.sheet),
                   !.sheet = a.redo_stack[Len(a.redo_stack)],
                   !.status_message = "Redo", !.op = "redo"]
    ELSE [a EXCEPT !.status_message = "Nothing to redo", !.op = "redo"]

\* get_count: the count returned; the buffer is cleared by clear_count
count_of(a) == LET n == parse_usize(a.count_buffer) IN IF n.ok THEN n.n ELSE 1
clear_count(a) == [a EXCEPT !.count_buffer = <<>>]

available_width == IF TERM_WIDTH >= ROW_LABEL_WIDTH THEN TERM_WIDTH - ROW_LABEL_WIDTH ELSE 0
visible_rows == IF TERM_HEIGHT >= 5 THEN TERM_HEIGHT - 5 ELSE 0

\* the while loop of adjust_view: is the cursor column drawn in full?
RECURSIVE cursor_visible(_, _, _)
cursor_visible(a, x, col) ==
    IF x < available_width /\ col <= MAX_COL
    THEN LET col_width == get_col_width(a.sheet, col)
         IN  IF col = a.cursor_col THEN x + col_width <= available_width
             ELSE cursor_visible(a, x + col_width, col + 1)
    ELSE FALSE

adjust_view(a) ==
    LET vc == IF a.cursor_col < a.view_col THEN a.cursor_col
              ELSE IF cursor_visible(a, 0, a.view_col) THEN a.view_col
              ELSE a.cursor_col
        vr == IF a.cursor_row < a.view_row THEN a.cursor_row
              ELSE IF a.cursor_row >= a.view_row + visible_rows
              THEN Max(a.cursor_row - (visible_rows - 1), 0)
              ELSE a.view_row
    IN  [a EXCEPT !.view_col = vc, !.view_row = vr]

move_cursor(a, dx, dy) ==
    LET count == count_of(a)
    IN  adjust_view([clear_count(a) EXCEPT
            !.cursor_col = Min(Max(a.cursor_col + dx * count, 0), MAX_COL),
            !.cursor_row = Min(Max(a.cursor_row + dy * count, 0), MAX_ROW)])

move_cursor_to(a, col, row) ==
    adjust_view([a EXCEPT !.cursor_col = Min(col, MAX_COL), !.cursor_row = Min(row, MAX_ROW)])

HEADER_ROWS == 2
grid_height == IF TERM_HEIGHT >= 4 THEN TERM_HEIGHT - 4 ELSE 0

RECURSIVE screen_to_cell_loop(_, _, _, _, _)
screen_to_cell_loop(a, screen_col, screen_row, x, col) ==
    IF x < TERM_WIDTH /\ col <= MAX_COL
    THEN LET col_width == get_col_width(a.sheet, col)
         IN  IF screen_col < x + col_width
             THEN Some(<<col, a.view_row + (screen_row - HEADER_ROWS)>>)
             ELSE screen_to_cell_loop(a, screen_col, screen_row, x + col_width, col + 1)
    ELSE None

screen_to_cell(a, screen_col, screen_row) ==
    IF screen_col < ROW_LABEL_WIDTH \/ screen_row < HEADER_ROWS THEN None
    ELSE IF screen_row >= HEADER_ROWS + grid_height THEN None
    ELSE screen_to_cell_loop(a, screen_col, screen_row, ROW_LABEL_WIDTH, a.view_col)

goto_axis_start(a) ==
    adjust_view(IF a.axis = "Row" THEN [a EXCEPT !.cursor_col = 0]
                ELSE [a EXCEPT !.cursor_row = 0])

goto_first_non_empty(a) ==
    adjust_view(
        IF a.axis = "Row"
        THEN [a EXCEPT !.cursor_col =
                unwrap_or(first_non_empty_col_in_row(a.sheet, a.cursor_row), a.cursor_col)]
        ELSE [a EXCEPT !.cursor_row =
                unwrap_or(first_non_empty_row_in_col(a.sheet, a.cursor_col), a.cursor_row)])

goto_axis_end(a) ==
    adjust_view(
        IF a.axis = "Row"
        THEN [a EXCEPT !.cursor_col = unwrap_or(max_col_in_row(a.sheet, a.cursor_row), 0)]
        ELSE [a EXCEPT !.cursor_row = unwrap_or(max_row_in_col(a.sheet, a.cursor_col), 0)])

\* --- structure operations ---
enter_edit_single(a) ==
    update_status([a EXCEPT !.mode = "EditSingle", !.input_buffer = <<>>, !.edit_original = <<>>])

insert_at_cursor(a) ==
    LET b == save_undo(a)
    IN  enter_edit_single(
            [b EXCEPT !.sheet = IF a.axis = "Row"
                                THEN shift_cells_right(b.sheet, a.cursor_col, a.cursor_row)
                                ELSE shift_cells_down(b.sheet, a.cursor_col, a.cursor_row)])

insert_at_start(a) ==
    LET b == save_undo(a)
        c == IF a.axis = "Row"
             THEN [b EXCEPT !.cursor_col = 0,
                            !.sheet = shift_cells_right(b.sheet, 0, a.cursor_row)]
             ELSE [b EXCEPT !.cursor_row = 0,
                            !.sheet = shift_cells_down(b.sheet, a.cursor_col, 0)]
    IN  enter_edit_single(adjust_view(c))

append_after_cursor(a) ==
    LET b == save_undo(a)
        c == IF a.axis = "Row"
             THEN [b EXCEPT !.cursor_col = a.cursor_col + 1,
                            !.sheet = shift_cells_right(b.sheet, a.cursor_col + 1, a.cursor_row)]
             ELSE [b EXCEPT !.cursor_row = a.cursor_row + 1,
                            !.sheet = shift_cells_down(b.sheet, a.cursor_col, a.cursor_row + 1)]
    IN  enter_edit_single(adjust_view(c))

goto_axis_end_next(a) ==
    adjust_view(
        IF a.axis = "Row"
        THEN [a EXCEPT !.cursor_col =
                Min(unwrap_or(max_col_in_row(a.sheet, a.cursor_row), 0) + 1, MAX_COL)]
        ELSE [a EXCEPT !.cursor_row =
                Min(unwrap_or(max_row_in_col(a.sheet, a.cursor_col), 0) + 1, MAX_ROW)])

delete_structure(a) ==
    LET b == save_undo(a)
    IN  IF a.axis = "Row"
        THEN [b EXCEPT !.sheet = delete_row(adjust_formulas_for_row_delete(b.sheet, a.cursor_row),
                                            a.cursor_row),
                       !.status_message = "Row deleted",
                       !.change = [kind |-> "RowDelete", at |-> a.cursor_row]]
        ELSE [b EXCEPT !.sheet = delete_col(adjust_formulas_for_col_delete(b.sheet, a.cursor_col),
                                            a.cursor_col),
                       !.status_message = "Column deleted",
                       !.change = [kind |-> "ColDelete", at |-> a.cursor_col]]

insert_structure_after(a) ==
    LET b == save_undo(a)
    IN  adjust_view(
            IF a.axis = "Row"
            THEN [b EXCEPT !.sheet = insert_row(
                                adjust_formulas_for_row_insert(b.sheet, a.cursor_row + 1),
                                a.cursor_row + 1),
                           !.cursor_row = a.cursor_row + 1,
                           !.status_message = "Row inserted below",
                           !.change = [kind |-> "RowInsert", at |-> a.cursor_row + 1]]
            ELSE [b EXCEPT !.sheet = insert_col(
                                adjust_formulas_for_col_insert(b.sheet, a.cursor_col + 1),
                                a.cursor_col + 1),
                           !.cursor_col = a.cursor_col + 1,
                           !.status_message = "Column inserted right",
                           !.change = [kind |-> "ColInsert", at |-> a.cursor_col + 1]])

insert_structure_before(a) ==
    LET b == save_undo(a)
    IN  adjust_view(
            IF a.axis = "Row"
            THEN [b EXCEPT !.sheet = insert_row(
                                adjust_formulas_for_row_insert(b.sheet, a.cursor_row),
                                a.cursor_row),
                           !.status_message = "Row inserted above",
                           !.change = [kind |-> "RowInsert", at |-> a.cursor_row]]
            ELSE [b EXCEPT !.sheet = insert_col(
                                adjust_formulas_for_col_insert(b.sheet, a.cursor_col),
                                a.cursor_col),
                           !.status_message = "Column inserted left",
                           !.change = [kind |-> "ColInsert", at |-> a.cursor_col]])

\* --- content clear operations ---
\* clear_cell on every cell of the columns c0..=c1 and rows r0..=r1
ClearRect(sh, c0, c1, r0, r1) ==
    LET keep == {k \in DOMAIN sh.cells : ~(c0 <= k[1] /\ k[1] <= c1 /\ r0 <= k[2] /\ k[2] <= r1)}
    IN  [sh EXCEPT !.cells = [k \in keep |-> sh.cells[k]]]
\* the number of turns of `for i in lo..=hi`
RangeCount(lo, hi) == IF hi >= lo THEN hi - lo + 1 ELSE 0
CellsCleared(count) == Str(NatToStr(count)) \o " cells cleared"

\* the clear of one stretch of the cursor's row (Row axis) or column (Column axis)
clear_along_axis(a, lo, hi) ==
    LET b == save_undo(a)
    IN  [b EXCEPT !.sheet = IF a.axis = "Row"
                            THEN ClearRect(b.sheet, lo, hi, a.cursor_row, a.cursor_row)
                            ELSE ClearRect(b.sheet, a.cursor_col, a.cursor_col, lo, hi),
                  !.status_message = CellsCleared(RangeCount(lo, hi))]

clear_current_cell(a) ==
    LET b == save_undo(a)
    IN  [b EXCEPT !.sheet = clear_cell(b.sheet, a.cursor_col, a.cursor_row),
                  !.status_message = "Cell cleared"]

clear_to_axis_end(a) ==
    IF a.axis = "Row"
    THEN clear_along_axis(a, a.cursor_col,
                          unwrap_or(max_col_in_row(a.sheet, a.cursor_row), a.cursor_col))
    ELSE clear_along_axis(a, a.cursor_row,
                          unwrap_or(max_row_in_col(a.sheet, a.cursor_col), a.cursor_row))

clear_from_axis_start(a) ==
    clear_along_axis(a, 0, IF a.axis = "Row" THEN a.cursor_col ELSE a.cursor_row)

clear_from_first_non_empty(a) ==
    IF a.axis = "Row"
    THEN clear_along_axis(a, unwrap_or(first_non_empty_col_in_row(a.sheet, a.cursor_row), 0),
                          a.cursor_col)
    ELSE clear_along_axis(a, unwrap_or(first_non_empty_row_in_col(a.sheet, a.cursor_col), 0),
                          a.cursor_row)

clear_to_sheet_end(a) ==
    IF a.axis = "Row"
    THEN clear_along_axis(a, a.cursor_col, unwrap_or(max_col(a.sheet), a.cursor_col))
    ELSE clear_along_axis(a, a.cursor_row, unwrap_or(max_row(a.sheet), a.cursor_row))

clear_from_sheet_start(a) ==
    clear_along_axis(a, 0, IF a.axis = "Row" THEN a.cursor_col ELSE a.cursor_row)

\* (min_col, min_row, max_col, max_row)
get_selection_bounds(a) ==
    [min_col |-> Min(a.visual_start_col, a.cursor_col),
     min_row |-> Min(a.visual_start_row, a.cursor_row),
     max_col |-> Max(a.visual_start_col, a.cursor_col),
     max_row |-> Max(a.visual_start_row, a.cursor_row)]

clear_selection_CursorCell(a) == [clear_current_cell(a) EXCEPT !.mode = "Normal"]
clear_selection(a) ==
    LET sel == get_selection_bounds(a)
        b == save_undo(a)
    IN  [b EXCEPT !.sheet = ClearRect(b.sheet, sel.min_col, sel.max_col, sel.min_row, sel.max_row),
                  !.status_message = CellsCleared(RangeCount(sel.min_col, sel.max_col)
                                                  * RangeCount(sel.min_row, sel.max_row)),
                  !.mode = "Normal"]

\* --- clipboard ---
\* ClipboardContent.  cells[r][c] of the code is kept sparsely: cells maps
\* <<c, r>> to (raw_input, value) for the cells of the rectangle that were
\* stored in the Sheet; every other cells[r][c] is ("", Empty).
selection_or_cursor(a) ==
    IF a.mode = "Visual" THEN get_selection_bounds(a)
    ELSE [min_col |-> a.cursor_col, min_row |-> a.cursor_row,
          max_col |-> a.cursor_col, max_row |-> a.cursor_row]

Times(w, h) == Str(NatToStr(w)) \o "x" \o Str(NatToStr(h))

yank(a) ==
    LET sel == selection_or_cursor(a)
        width == sel.max_col - sel.min_col + 1
        height == sel.max_row - sel.min_row + 1
        inside == {k \in DOMAIN a.sheet.cells :
                      /\ sel.min_col <= k[1] /\ k[1] <= sel.max_col
                      /\ sel.min_row <= k[2] /\ k[2] <= sel.max_row}
        offsets == {<<k[1] - sel.min_col, k[2] - sel.min_row>> : k \in inside}
        cells == [o \in offsets |->
                    LET cell == a.sheet.cells[<<o[1] + sel.min_col, o[2] + sel.min_row>>]
                    IN  [raw_input |-> cell.raw_input, value |-> cell.value]]
        b == [a EXCEPT !.clipboard = Some([cells |-> cells, start_col |-> sel.min_col,
                                           start_row |-> sel.min_row,
                                           width |-> width, height |-> height]),
                       !.cursor_col = sel.min_col, !.cursor_row = sel.min_row]
    IN  [adjust_view(b) EXCEPT !.status_message = "Copied " \o Times(width, height) \o " cells",
                               !.mode = "Normal"]

\* one line of the TSV: the displayed values of row `row`, tab-separated
RECURSIVE tsv_line(_, _, _, _)
tsv_line(sh, row, col, max_c) ==
    IF col > max_c THEN <<"\n">>
    ELSE evaluate(sh, col, row)
         \o (IF col < max_c THEN <<"\t">> ELSE <<>>)
         \o tsv_line(sh, row, col + 1, max_c)
RECURSIVE tsv_rows(_, _, _, _, _)
tsv_rows(sh, row, max_r, min_c, max_c) ==
    IF row > max_r THEN <<>>
    ELSE tsv_line(sh, row, min_c, max_c) \o tsv_rows(sh, row + 1, max_r, min_c, max_c)

\* the system clipboard is there and takes the text (arboard returns Ok)
yank_to_system(a) ==
    LET sel == selection_or_cursor(a)
        width == sel.max_col - sel.min_col + 1
        height == sel.max_row - sel.min_row + 1
        tsv == tsv_rows(a.sheet, sel.min_row, sel.max_row, sel.min_col, sel.max_col)
        b == [a EXCEPT !.system_clipboard = tsv,
                       !.status_message = "Copied " \o Times(width, height) \o " cells to clipboard",
                       !.cursor_col = sel.min_col, !.cursor_row = sel.min_row]
    IN  [adjust_view(b) EXCEPT !.mode = "Normal"]

paste_copy_adjusted(o, clip, col_delta, row_delta) ==
    IF starts_with(clip.cells[o].raw_input, <<"=">>)
    THEN adjust_formula(clip.cells[o].raw_input, col_delta, row_delta)
    ELSE clip.cells[o].raw_input
\* one copy of the clipboard written with its top-left cell at (paste_col, paste_row):
\* set_cell on every cell of the rectangle
paste_copy(sh, clip, paste_col, paste_row) ==
    LET col_delta == paste_col - clip.start_col
        row_delta == paste_row - clip.start_row
        written == {o \in DOMAIN clip.cells : trim(paste_copy_adjusted(o, clip, col_delta, row_delta)) # <<>>}
        cleared == ClearRect(sh, paste_col, paste_col + clip.width - 1,
                             paste_row, paste_row + clip.height - 1)
        dst == {<<paste_col + o[1], paste_row + o[2]>> : o \in written}
    IN  [cleared EXCEPT !.cells =
            [k \in (DOMAIN cleared.cells) \cup dst |->
                IF k \in dst
                THEN LET input == paste_copy_adjusted(<<k[1] - paste_col, k[2] - paste_row>>, clip, col_delta, row_delta)
                     IN  Cell_new(input, parse_input(input))
                ELSE cleared.cells[k]]]

RECURSIVE paste_loop(_, _, _, _, _, _)
paste_loop(sh, clip, ax, paste_col, paste_row, n) ==
    IF n = 0 THEN sh
    ELSE paste_loop(paste_copy(sh, clip, paste_col, paste_row), clip, ax,
                    IF ax = "Row" THEN paste_col + clip.width ELSE paste_col,
                    IF ax = "Row" THEN paste_row ELSE paste_row + clip.height,
                    n - 1)

paste(a, count) ==
    IF ~a.clipboard.some THEN [a EXCEPT !.status_message = "Nothing to paste"]
    ELSE LET clip == a.clipboard.v
             b == save_undo(a)
         IN  [b EXCEPT !.sheet = paste_loop(b.sheet, clip, a.axis, a.cursor_col, a.cursor_row, count),
                       !.last_paste_cols = clip.width,
                       !.last_paste_rows = clip.height,
                       !.status_message = "Pasted "
                            \o Str(NatToStr(clip.width * clip.height * count)) \o " cells"]

\* str::lines: the text cut at every "\n"; a last line without "\n" counts,
\* an empty rest after the last "\n" does not ("\r" never occurs in this model)
RECURSIVE lines(_, _)
lines(text, current) ==
    IF text = <<>> THEN (IF current = <<>> THEN <<>> ELSE <<current>>)
    ELSE IF Head(text) = "\n" THEN <<current>> \o lines(Tail(text), <<>>)
    ELSE lines(Tail(text), Append(current, Head(text)))

\* str::split(ch)
RECURSIVE split(_, _, _)
split(text, ch, current) ==
    IF text = <<>> THEN <<current>>
    ELSE IF Head(text) = ch THEN <<current>> \o split(Tail(text), ch, <<>>)
    ELSE split(Tail(text), ch, Append(current, Head(text)))

RECURSIVE paste_fields(_, _, _, _, _)
paste_fields(sh, fields, c_offset, dst_col, dst_row) ==
    IF c_offset > Len(fields) THEN sh
    ELSE paste_fields(set_cell(sh, dst_col + c_offset - 1, dst_row, fields[c_offset]),
                      fields, c_offset + 1, dst_col, dst_row)

\* the loop over the lines; r is [sheet, width]
RECURSIVE paste_lines(_, _, _, _, _)
paste_lines(r, ls, r_offset, dst_col, dst_row) ==
    IF r_offset > Len(ls) THEN r
    ELSE LET line == ls[r_offset]
             fields == IF contains(line, "\t") THEN split(line, "\t", <<>>)
                       ELSE split(line, ",", <<>>)
         IN  paste_lines([sheet |-> paste_fields(r.sheet, fields, 1, dst_col,
                                                 dst_row + r_offset - 1),
                          width |-> Max(r.width, Len(fields))],
                         ls, r_offset + 1, dst_col, dst_row)

\* the system clipboard is there (arboard returns Ok)
paste_from_system(a) ==
    IF a.system_clipboard = <<>> THEN [a EXCEPT !.status_message = "Clipboard is empty"]
    ELSE LET b == save_undo(a)
             ls == lines(a.system_clipboard, <<>>)
             r == paste_lines([sheet |-> b.sheet, width |-> 0], ls, 1,
                              a.cursor_col, a.cursor_row)
         IN  [b EXCEPT !.sheet = r.sheet,
                       !.last_paste_cols = r.width,
                       !.last_paste_rows = Len(ls),
                       !.status_message = "Pasted " \o Times(r.width, Len(ls))
                                          \o " cells from clipboard"]

(***************************************************************************)
(* commands.rs.  The commands that write files (w, write, wq, export) are  *)
(* not part of this model; no command text of the model names one.         *)
(***************************************************************************)
\* str::contains(&str)
contains_str(text, pat) ==
    \E i \in 1..(Len(text) + 1) :
        i + Len(pat) - 1 <= Len(text) /\ SubSeq(text, i, i + Len(pat) - 1) = pat

\* str::splitn(2, ch): [n |-> number of parts, first, rest]
RECURSIVE splitn2_at(_, _, _)
splitn2_at(text, ch, i) ==
    IF i > Len(text) THEN [n |-> 1, first |-> text, rest |-> <<>>]
    ELSE IF text[i] = ch
    THEN [n |-> 2, first |-> SubSeq(text, 1, i - 1), rest |-> SubSeq(text, i + 1, Len(text))]
    ELSE splitn2_at(text, ch, i + 1)
splitn2(text, ch) == splitn2_at(text, ch, 1)

\* the cells a search looks at, in the order of the two passes of search_forward:
\* after the cursor to the end of the grid, then from the top up to the cursor
search_matches(a) ==
    {k \in DOMAIN a.sheet.cells :
        contains_str(to_uppercase(evaluate(a.sheet, k[1], k[2])), to_uppercase(a.last_search))}
after_cursor(a, k) ==
    \/ k[2] = a.cursor_row /\ a.cursor_col < k[1] /\ k[1] <= MAX_COL /\ k[2] <= MAX_ROW
    \/ a.cursor_row < k[2] /\ k[2] <= MAX_ROW /\ k[1] <= MAX_COL
before_cursor(a, k) ==
    \/ k[2] < a.cursor_row /\ k[1] <= MAX_COL
    \/ k[2] = a.cursor_row /\ k[1] < a.cursor_col
RowMajorLess(k, j) == k[2] < j[2] \/ (k[2] = j[2] /\ k[1] < j[1])
FirstOf(S) == CHOOSE k \in S : \A j \in S \ {k} : RowMajorLess(k, j)
LastOf(S) == CHOOSE k \in S : \A j \in S \ {k} : RowMajorLess(j, k)

search_found(a, k, sign, suffix) ==
    [adjust_view([a EXCEPT !.cursor_col = k[1], !.cursor_row = k[2]]) EXCEPT
        !.status_message = sign \o Str(a.last_search) \o " -> "
                           \o Str(cell_name(k[1], k[2])) \o suffix]

search_forward__passes(ahead, behind, a) ==
    IF ahead # {} THEN search_found(a, FirstOf(ahead), "/", "")
    ELSE IF behind # {} THEN search_found(a, FirstOf(behind), "/", " (wrapped)")
    ELSE [a EXCEPT !.status_message = "Pattern not found: " \o Str(a.last_search)]
search_forward__among(matches, a) ==
    search_forward__passes({k \in matches : after_cursor(a, k)}, {k \in matches : before_cursor(a, k)}, a)
search_forward_(a) ==
    IF a.last_search = <<>> THEN [a EXCEPT !.status_message = "No search pattern"]
        ELSE search_forward__among(search_matches(a), a)

search_backward_passes(ahead, behind, a) ==
    IF behind # {} THEN search_found(a, LastOf(behind), "?", "")
    ELSE IF ahead # {} THEN search_found(a, LastOf(ahead), "?", " (wrapped)")
    ELSE [a EXCEPT !.status_message = "Pattern not found: " \o Str(a.last_search)]
search_backward_among(matches, a) ==
    search_backward_passes({k \in matches : after_cursor(a, k)}, {k \in matches : before_cursor(a, k)}, a)
search_backward(a) ==
    IF a.last_search = <<>> THEN [a EXCEPT !.status_message = "No search pattern"]
        ELSE search_backward_among(search_matches(a), a)

search_next(a) == IF a.search_forward THEN search_forward_(a) ELSE search_backward(a)
search_prev(a) == IF a.search_forward THEN search_backward(a) ELSE search_forward_(a)

handle_set(a, args) ==
    LET parts == splitn2(args, "=")
        option == Str(to_lowercase(trim(parts.first)))
        value == Str(trim(parts.rest))
    IN  IF parts.n # 2 THEN [a EXCEPT !.status_message = "Usage: :set option=value"]
        ELSE IF option \in {"name", "sheet"}
        THEN [a EXCEPT !.sheet = [a.sheet EXCEPT !.name = value],
                       !.status_message = "Sheet name set to '" \o value \o "'"]
        ELSE [a EXCEPT !.status_message = "Unknown option: " \o option]

AUTOWIDTH_MIN_WIDTH == 4
AUTOWIDTH_MAX_WIDTH == 50

\* UnicodeWidthStr::width is the length for the ASCII texts of this model
calc_column_width(sh, col, max_r, min_width, max_width) ==
    LET shown == {Len(evaluate(sh, col, k[2])) + 2 :
                    k \in {q \in DOMAIN sh.cells : q[1] = col /\ q[2] <= max_r}}
        all == {min_width, Len(col_to_name(col)) + 2, 2} \cup shown
    IN  Min(SetMax(all).v, max_width)

RECURSIVE autowidth_cols(_, _, _, _)
autowidth_cols(sh, col, end_col, max_r) ==
    IF col > end_col THEN sh
    ELSE autowidth_cols(
            set_col_width(sh, col, calc_column_width(sh, col, max_r, AUTOWIDTH_MIN_WIDTH,
                                                     AUTOWIDTH_MAX_WIDTH)),
            col + 1, end_col, max_r)

parse_col_name(name) ==
    LET t == trim(name)
    IN  IF t = <<>> THEN None
        ELSE IF \E i \in 1..Len(t) : ~is_ascii_alphabetic(t[i]) THEN None
        ELSE Some(Max(ColIndex1(to_uppercase(t)) - 1, 0))

autowidth_sized(width, a, col, args_upper) ==
    [a EXCEPT !.sheet = set_col_width(a.sheet, col.v, width),
              !.status_message = "Column " \o Str(args_upper)
                                 \o " width set to " \o Str(NatToStr(width))]
autowidth(a, args) ==
    LET max_r == unwrap_or(max_row(a.sheet), 0)
        args_upper == to_uppercase(args)
        parts == splitn2(args_upper, ":")
    IN  IF args = <<>>
        THEN LET max_c == unwrap_or(max_col(a.sheet), 0)
             IN  [a EXCEPT !.sheet = autowidth_cols(a.sheet, 0, max_c, max_r),
                           !.status_message = "Auto-adjusted " \o Str(NatToStr(max_c + 1))
                                              \o " columns"]
        ELSE IF parts.n = 2
        THEN LET start_col == parse_col_name(parts.first)
                 end_col == parse_col_name(parts.rest)
             IN  IF start_col.some /\ end_col.some
                 THEN [a EXCEPT !.sheet = autowidth_cols(a.sheet, start_col.v, end_col.v, max_r),
                                !.status_message = "Auto-adjusted columns " \o Str(parts.first)
                                                   \o ":" \o Str(parts.rest)]
                 ELSE [a EXCEPT !.status_message = "Invalid column range"]
        ELSE LET col == parse_col_name(args_upper)
             IN  IF col.some
                 THEN autowidth_sized(calc_column_width(a.sheet, col.v, max_r, AUTOWIDTH_MIN_WIDTH,
                                                  AUTOWIDTH_MAX_WIDTH), a, col, args_upper)
                 ELSE [a EXCEPT !.status_message = "Invalid column name"]

(***************************************************************************)
(* commands.rs: loading.  The file system is the environment: the file an  *)
(* event reads is [readable, json, lines], where lines is its text and     *)
(* json what serde_json makes of that text (None when it is no VicalcFile),*)
(* as [name, col_widths, cells] with col_widths a set of <<column name,    *)
(* width>> and cells a set of [name, value, formula].  The maps of a file  *)
(* of the model name each column and each cell once, so the order in which *)
(* a HashMap is walked does not show.                                      *)
(***************************************************************************)
IoError == "No such file or directory (os error 2)"
JsonError == "expected value at line 1 column 1"
\* io::Result<()> of a function that works on &mut App: the error, if any, and
\* the App as the function leaves it
LoadErr(e, a) == [ok |-> FALSE, e |-> e, a |-> a]
LoadOk(a) == [ok |-> TRUE, e |-> "", a |-> a]

RECURSIVE restore_col_widths(_, _)
restore_col_widths(sh, widths) ==
    IF widths = {} THEN sh
    ELSE LET w == CHOOSE x \in widths : TRUE
             ref == parse_cell_ref(w[1] \o <<"1">>)
         IN  restore_col_widths(IF ref.some THEN set_col_width(sh, ref.col, w[2]) ELSE sh,
                                widths \ {w})
RECURSIVE restore_cells(_, _)
restore_cells(sh, cells) ==
    IF cells = {} THEN sh
    ELSE LET cell_data == CHOOSE x \in cells : TRUE
             ref == parse_cell_ref(cell_data.name)
         IN  restore_cells(IF ref.some
                           THEN set_cell(sh, ref.col, ref.row,
                                         unwrap_or(cell_data.formula, cell_data.value))
                           ELSE sh,
                           cells \ {cell_data})

load_json_SavesFirst(a, file) ==
    IF ~file.readable THEN LoadErr(IoError, a)
    ELSE IF ~file.json.some THEN LoadErr(JsonError, save_undo(a))
    ELSE LET file_data == file.json.v
             named == [Sheet_new EXCEPT !.name = file_data.name]
             sh == restore_cells(restore_col_widths(named, file_data.col_widths),
                                 file_data.cells)
         IN  LoadOk([save_undo(a) EXCEPT !.sheet = sh, !.cursor_col = 0, !.cursor_row = 0,
                                         !.view_col = 0, !.view_row = 0])
load_json(a, file) ==
    IF ~file.readable THEN LoadErr(IoError, a)
    ELSE IF ~file.json.some THEN LoadErr(JsonError, a)
    ELSE LET file_data == file.json.v
             named == [Sheet_new EXCEPT !.name = file_data.name]
             sh == restore_cells(restore_col_widths(named, file_data.col_widths),
                                 file_data.cells)
         IN  LoadOk([save_undo(a) EXCEPT !.sheet = sh, !.cursor_col = 0, !.cursor_row = 0,
                                         !.view_col = 0, !.view_row = 0])

\* one line of import_csv: the scan from character i with the column, the
\* field read so far and whether the scan is inside quotes
RECURSIVE import_csv_line(_, _, _, _, _, _, _)
import_csv_line(sh, row, chars, i, col, current, in_quotes) ==
    IF i > Len(chars)
    THEN (IF current # <<>> THEN set_cell(sh, col, row, current) ELSE sh)
    ELSE IF chars[i] = "\""
    THEN (IF in_quotes /\ i < Len(chars) /\ chars[i + 1] = "\""
          THEN import_csv_line(sh, row, chars, i + 2, col, Append(current, "\""), in_quotes)
          ELSE import_csv_line(sh, row, chars, i + 1, col, current, ~in_quotes))
    ELSE IF chars[i] = "," /\ ~in_quotes
    THEN import_csv_line(IF current # <<>> THEN set_cell(sh, col, row, current) ELSE sh,
                         row, chars, i + 1, col + 1, <<>>, in_quotes)
    ELSE import_csv_line(sh, row, chars, i + 1, col, Append(current, chars[i]), in_quotes)
RECURSIVE import_csv_lines(_, _, _)
import_csv_lines(sh, text, n) ==
    IF n > Len(text) THEN sh
    ELSE import_csv_lines(import_csv_line(sh, n - 1, text[n], 1, 0, <<>>, FALSE), text, n + 1)

import_csv(a, file) ==
    IF ~file.readable THEN LoadErr(IoError, a)
    ELSE LoadOk([save_undo(a) EXCEPT !.sheet = import_csv_lines(Sheet_new, file.lines, 1),
                                     !.cursor_col = 0, !.cursor_row = 0,
                                     !.view_col = 0, !.view_row = 0])

RECURSIVE LastDot(_, _)
LastDot(name, i) == IF i = 0 \/ name[i] = "." THEN i ELSE LastDot(name, i - 1)
\* Path::extension, lower-cased, of a file name without directories
extension(filename) ==
    LET d == LastDot(filename, Len(filename))
    IN  IF d <= 1 THEN <<>> ELSE to_lowercase(SubSeq(filename, d + 1, Len(filename)))
load_file(a, filename, file) ==
    IF extension(filename) = <<"c", "s", "v">> THEN import_csv(a, file) ELSE load_json(a, file)

FileCommands == {"w", "write", "wq", "e", "edit", "open", "export", "import"}
KnownCommands ==
    FileCommands \cup {"q", "quit", "q!", "goto", "go", "g", "set", "delrow", "dr", "delcol", "dc",
                       "insrow", "ir", "inscol", "ic", "clear", "autowidth", "aw", "help", "h", ""}

\* the row named by the argument of :delrow and :insrow
row_arg(a, args) ==
    IF args = <<>> THEN a.cursor_row
    ELSE LET n == parse_usize(args)
         IN  Max((IF n.ok THEN n.n ELSE a.cursor_row + 1) - 1, 0)
\* the column named by the argument of :delcol and :inscol
col_arg(a, args) ==
    IF args = <<>> THEN a.cursor_col
    ELSE LET ref == parse_cell_ref(args \o <<"1">>)
         IN  IF ref.some THEN ref.col ELSE a.cursor_col

execute_command(a, cmd0) ==
    LET cmd == trim(cmd0)
        parts == splitn2(cmd, " ")
        command == Str(to_lowercase(parts.first))
        args == parts.rest
    IN  IF starts_with(cmd, <<"/">>)
        THEN search_forward_(IF Len(cmd) > 1
                             THEN [a EXCEPT !.last_search = Tail(cmd), !.search_forward = TRUE]
                             ELSE a)
        ELSE IF starts_with(cmd, <<"?">>)
        THEN search_backward(IF Len(cmd) > 1
                             THEN [a EXCEPT !.last_search = Tail(cmd), !.search_forward = FALSE]
                             ELSE a)
        ELSE CASE command \in {"q", "quit", "q!"} -> [a EXCEPT !.running = FALSE]
               [] command \in {"e", "edit", "open"} ->
                    LET loaded == load_file(a, args, a.file)
                    IN  IF args = <<>> THEN [a EXCEPT !.status_message = "Usage: :e <filename>"]
                        ELSE IF ~loaded.ok
                        THEN [loaded.a EXCEPT !.status_message = "Error loading: " \o loaded.e]
                        ELSE [loaded.a EXCEPT !.current_file = Some(Str(args)),
                                              !.status_message = "Loaded " \o Str(args)]
               [] command = "import" ->
                    LET loaded == import_csv(a, a.file)
                    IN  IF args = <<>>
                        THEN [a EXCEPT !.status_message = "Usage: :import <filename.csv>"]
                        ELSE IF ~loaded.ok
                        THEN [loaded.a EXCEPT !.status_message = "Error importing: " \o loaded.e]
                        ELSE [loaded.a EXCEPT !.status_message = "Imported " \o Str(args)]
               [] command \in {"goto", "go", "g"} ->
                    LET ref == parse_cell_ref(args)
                    IN  IF ref.some
                        THEN [adjust_view([a EXCEPT !.cursor_col = ref.col,
                                                    !.cursor_row = ref.row])
                               EXCEPT !.status_message =
                                        "Moved to " \o Str(cell_name(ref.col, ref.row))]
                        ELSE [a EXCEPT !.status_message = "Invalid cell reference"]
               [] command = "set" -> handle_set(a, args)
               [] command \in {"delrow", "dr"} ->
                    LET row == row_arg(a, args)
                        b == save_undo(a)
                    IN  [b EXCEPT !.sheet = delete_row(adjust_formulas_for_row_delete(b.sheet, row),
                                                       row),
                                  !.status_message = "Deleted row " \o Str(NatToStr(row + 1)),
                                  !.change = [kind |-> "RowDelete", at |-> row]]
               [] command \in {"delcol", "dc"} ->
                    LET col == col_arg(a, args)
                        b == save_undo(a)
                    IN  [b EXCEPT !.sheet = delete_col(adjust_formulas_for_col_delete(b.sheet, col),
                                                       col),
                                  !.status_message = "Deleted column " \o Str(col_to_name(col)),
                                  !.change = [kind |-> "ColDelete", at |-> col]]
               [] command \in {"insrow", "ir"} ->
                    LET row == row_arg(a, args)
                        b == save_undo(a)
                    IN  [b EXCEPT !.sheet = insert_row(adjust_formulas_for_row_insert(b.sheet, row),
                                                       row),
                                  !.status_message = "Inserted row at " \o Str(NatToStr(row + 1)),
                                  !.change = [kind |-> "RowInsert", at |-> row]]
               [] command \in {"inscol", "ic"} ->
                    LET col == col_arg(a, args)
                        b == save_undo(a)
                    IN  [b EXCEPT !.sheet = insert_col(adjust_formulas_for_col_insert(b.sheet, col),
                                                       col),
                                  !.status_message = "Inserted column at "
                                                     \o Str(col_to_name(col)),
                                  !.change = [kind |-> "ColInsert", at |-> col]]
               [] command = "clear" ->
                    [save_undo(a) EXCEPT !.sheet = Sheet_new, !.cursor_col = 0, !.cursor_row = 0,
                                         !.view_col = 0, !.view_row = 0,
                                         !.current_file = None,
                                         !.status_message = "Sheet cleared"]
               [] command \in {"autowidth", "aw"} -> autowidth(a, args)
               [] command \in {"help", "h"} ->
                    [a EXCEPT !.status_message =
                        "Commands: :w :q :wq :e :export :import :goto :set :autowidth :help"]
               [] command = "" -> a
               [] command \notin KnownCommands ->
                    [a EXCEPT !.status_message = "Unknown command: " \o command]

(***************************************************************************)
(* main.rs: the event handlers.  A key is [code, ctrl]: code is the        *)
(* character of KeyCode::Char or the name of another KeyCode.              *)
(***************************************************************************)
Key(code) == [code |-> code, ctrl |-> FALSE]
Ctrl(code) == [code |-> code, ctrl |-> TRUE]
IsChar(key) == Len(key.code) = 1
pending_is(a, ch) == a.pending_operator.some /\ a.pending_operator.v = ch
no_pending(a) == [a EXCEPT !.pending_operator = None]

\* the Ctrl+F/B/D/U arms: view and cursor move together by `scroll` rows
page_down(a, unit) ==
    LET scroll == unit * Max(count_of(a), 1)
    IN  [clear_count(a) EXCEPT !.view_row = Min(a.view_row + scroll, MAX_ROW),
                               !.cursor_row = Min(a.cursor_row + scroll, MAX_ROW)]
page_up(a, unit) ==
    LET scroll == unit * Max(count_of(a), 1)
    IN  [clear_count(a) EXCEPT !.view_row = Max(a.view_row - scroll, 0),
                               !.cursor_row = Max(a.cursor_row - scroll, 0)]

\* the Ctrl arm of handle_normal_mode (Ctrl+S saves a file and is not modelled)
handle_normal_ctrl(a, key) ==
    LET page_size == grid_height
        half_page == page_size \div 2
        c == key.code
    IN  CASE c = "q" -> [a EXCEPT !.running = FALSE]
          [] c = "r" -> redo(a)
          [] c = "f" -> page_down(a, page_size)
          [] c = "b" -> page_up(a, page_size)
          [] c = "d" -> page_down(a, half_page)
          [] c = "u" -> page_up(a, half_page)
          [] c \notin {"q", "r", "s", "f", "b", "d", "u"} -> a

\* the arms '=', 'r', 'R' and F2: enter an edit mode on the cursor's cell
start_edit(a, m, buffer) ==
    update_status([a EXCEPT !.edit_original = get_cell(a.sheet, a.cursor_col, a.cursor_row).raw_input,
                            !.mode = m, !.input_buffer = buffer])

\* the arms '<' and '>'
change_col_width(a, sign) ==
    LET sh == adjust_col_width(a.sheet, a.cursor_col, sign * count_of(a))
    IN  [clear_count(a) EXCEPT !.sheet = sh,
            !.status_message = "Column width: " \o Str(NatToStr(get_col_width(sh, a.cursor_col)))]

NormalKeys ==
    {"1", "2", "3", "4", "5", "6", "7", "8", "9", "0", "h", "j", "k", "l",
     "Left", "Down", "Up", "Right", "g", "G", "/", "x", "=", "r", "R", "F2", "i", "I", "a", "A",
     "d", "$", "^", "o", "O", "<", ">", "u", "y", "p", "\"", "v", "V", "n", "N", ":", "Esc"}

handle_normal_mode(a, key) ==
    LET c == key.code
    IN  IF key.ctrl THEN handle_normal_ctrl(a, key)
        ELSE CASE c \in {"1", "2", "3", "4", "5", "6", "7", "8", "9"} ->
                    [a EXCEPT !.count_buffer = Append(a.count_buffer, c)]
               [] c = "0" ->
                    IF a.count_buffer # <<>> THEN [a EXCEPT !.count_buffer = Append(a.count_buffer, "0")]
                    ELSE IF pending_is(a, "d") THEN no_pending(clear_from_axis_start(a))
                    ELSE goto_axis_start(a)
               [] c \in {"h", "Left"} -> move_cursor(a, -1, 0)
               [] c \in {"j", "Down"} -> move_cursor(a, 0, 1)
               [] c \in {"k", "Up"} -> move_cursor(a, 0, -1)
               [] c \in {"l", "Right"} -> move_cursor(a, 1, 0)
               [] c = "g" ->
                    IF pending_is(a, "d")
                    THEN [a EXCEPT !.pending_operator = Some("D"), !.status_message = "dg..."]
                    ELSE IF pending_is(a, "D") THEN no_pending(clear_from_sheet_start(a))
                    ELSE IF pending_is(a, "g")
                    THEN no_pending(adjust_view([a EXCEPT !.cursor_col = 0, !.cursor_row = 0]))
                    ELSE [a EXCEPT !.pending_operator = Some("g")]
               [] c = "G" ->
                    IF pending_is(a, "d") THEN no_pending(clear_to_sheet_end(a))
                    ELSE adjust_view([a EXCEPT !.cursor_row = unwrap_or(max_row(a.sheet), 0),
                                               !.cursor_col = unwrap_or(max_col(a.sheet), 0)])
               [] c = "/" -> [a EXCEPT !.slash_pending = TRUE, !.status_message = "/ ..."]
               [] c = "x" -> clear_current_cell(a)
               [] c = "=" -> start_edit(a, "EditSingle", <<"=">>)
               [] c = "r" -> start_edit(a, "EditSingle", <<>>)
               [] c = "R" -> start_edit(a, "EditContinuous", <<>>)
               [] c = "F2" -> start_edit(a, "EditPreserve",
                                         get_cell(a.sheet, a.cursor_col, a.cursor_row).raw_input)
               [] c = "i" -> insert_at_cursor(a)
               [] c = "I" -> insert_at_start(a)
               [] c = "a" -> append_after_cursor(a)
               [] c = "A" -> goto_axis_end_next(a)
               [] c = "d" ->
                    IF pending_is(a, "d") THEN no_pending(delete_structure(a))
                    ELSE [a EXCEPT !.pending_operator = Some("d"), !.status_message = "d..."]
               [] c = "$" ->
                    IF pending_is(a, "d") THEN no_pending(clear_to_axis_end(a))
                    ELSE goto_axis_end(a)
               [] c = "^" ->
                    IF pending_is(a, "d") THEN no_pending(clear_from_first_non_empty(a))
                    ELSE goto_first_non_empty(a)
               [] c = "o" -> insert_structure_after(a)
               [] c = "O" -> insert_structure_before(a)
               [] c = "<" -> change_col_width(a, -1)
               [] c = ">" -> change_col_width(a, 1)
               [] c = "u" -> undo(a)
               [] c = "y" -> yank(a)
               [] c = "p" -> paste(clear_count(a), Max(count_of(a), 1))
               [] c = "\"" -> [a EXCEPT !.register_pending = TRUE, !.status_message = "\" ..."]
               [] c = "v" -> [a EXCEPT !.mode = "Visual", !.visual_start_col = a.cursor_col,
                                       !.visual_start_row = a.cursor_row,
                                       !.status_message = "-- VISUAL --"]
               [] c = "V" ->
                    IF a.axis = "Row"
                    THEN [a EXCEPT !.mode = "Visual", !.visual_start_col = 0,
                                   !.visual_start_row = a.cursor_row,
                                   !.cursor_col = unwrap_or(max_col(a.sheet), MAX_COL),
                                   !.status_message = "-- VISUAL LINE --"]
                    ELSE [a EXCEPT !.mode = "Visual", !.visual_start_col = a.cursor_col,
                                   !.visual_start_row = 0,
                                   !.cursor_row = unwrap_or(max_row(a.sheet), MAX_ROW),
                                   !.status_message = "-- VISUAL COLUMN --"]
               [] c = "n" -> search_next(a)
               [] c = "N" -> search_prev(a)
               [] c = ":" -> [a EXCEPT !.mode = "Command", !.command_buffer = <<>>,
                                       !.status_message = ":"]
               [] c = "Esc" ->
                    update_status([a EXCEPT !.pending_operator = None, !.count_buffer = <<>>,
                                            !.slash_pending = FALSE, !.register_pending = FALSE])
               [] c \notin NormalKeys -> a

\* Tab (complete_filename) reads the file system and is not modelled
handle_command_mode(a, key) ==
    LET c == key.code
    IN  CASE c = "Esc" -> update_status([a EXCEPT !.mode = "Normal", !.command_buffer = <<>>])
          [] c = "Enter" ->
                [execute_command([a EXCEPT !.mode = "Normal"], a.command_buffer)
                    EXCEPT !.command_buffer = <<>>]
          [] c = "Backspace" ->
                LET buf == IF a.command_buffer = <<>> THEN <<>>
                           ELSE SubSeq(a.command_buffer, 1, Len(a.command_buffer) - 1)
                IN  IF buf = <<>>
                    THEN update_status([a EXCEPT !.command_buffer = buf, !.mode = "Normal"])
                    ELSE [a EXCEPT !.command_buffer = buf, !.status_message = ":" \o Str(buf)]
          [] IsChar(key) ->
                [a EXCEPT !.command_buffer = Append(a.command_buffer, c),
                          !.status_message = ":" \o Str(Append(a.command_buffer, c))]
          [] ~IsChar(key) /\ c \notin {"Esc", "Enter", "Backspace", "Tab"} -> a

update_visual_status(a) ==
    LET sel == get_selection_bounds(a)
    IN  [a EXCEPT !.status_message =
            "-- VISUAL -- " \o Times(sel.max_col - sel.min_col + 1, sel.max_row - sel.min_row + 1)]

VisualKeys ==
    {"Esc", "h", "Left", "j", "Down", "k", "Up", "l", "Right", "0", "$", "g", "G", "y", "d", "x", "\""}

handle_visual_mode_moved(b) ==
    update_visual_status(adjust_view(b))
handle_visual_mode(a, key) ==
    LET c == key.code
    IN  CASE c = "Esc" -> update_status([a EXCEPT !.mode = "Normal"])
          [] c \in {"h", "Left"} -> handle_visual_mode_moved([a EXCEPT !.cursor_col = Max(a.cursor_col - 1, 0)])
          [] c \in {"j", "Down"} -> handle_visual_mode_moved([a EXCEPT !.cursor_row = Min(a.cursor_row + 1, MAX_ROW)])
          [] c \in {"k", "Up"} -> handle_visual_mode_moved([a EXCEPT !.cursor_row = Max(a.cursor_row - 1, 0)])
          [] c \in {"l", "Right"} -> handle_visual_mode_moved([a EXCEPT !.cursor_col = Min(a.cursor_col + 1, MAX_COL)])
          [] c = "0" -> handle_visual_mode_moved([a EXCEPT !.cursor_col = 0])
          [] c = "$" -> handle_visual_mode_moved([a EXCEPT !.cursor_col =
                                unwrap_or(max_col_in_row(a.sheet, a.cursor_row), a.cursor_col)])
          [] c = "g" -> handle_visual_mode_moved([a EXCEPT !.cursor_col = 0, !.cursor_row = 0])
          [] c = "G" -> handle_visual_mode_moved([a EXCEPT !.cursor_row = unwrap_or(max_row(a.sheet), 0),
                                        !.cursor_col = unwrap_or(max_col(a.sheet), 0)])
          [] c = "y" -> yank(a)
          [] c \in {"d", "x"} -> clear_selection(a)
          [] c = "\"" -> [a EXCEPT !.register_pending = TRUE, !.status_message = "\" ..."]
          [] c \notin VisualKeys -> a

\* the commit of handle_edit_mode: set_cell of a non-empty input_buffer
commit_input_NoSnapshot(a) ==
    [a EXCEPT !.sheet = set_cell(a.sheet, a.cursor_col, a.cursor_row, a.input_buffer),
              !.input_buffer = <<>>]
commit_input(a) ==
    IF a.input_buffer # <<>>
    THEN LET b == save_undo(a)
         IN  [b EXCEPT !.sheet = set_cell(b.sheet, a.cursor_col, a.cursor_row, a.input_buffer),
                       !.input_buffer = <<>>]
    ELSE [a EXCEPT !.input_buffer = <<>>]

\* EditContinuous after a commit: the cursor moves and the edit goes on
continue_edit_LeavesEdit(a, new_col, new_row) ==
    update_status(adjust_view([a EXCEPT !.mode = "Normal", !.cursor_col = new_col,
                                        !.cursor_row = new_row]))
continue_edit(a, new_col, new_row) ==
    LET b == adjust_view([a EXCEPT !.cursor_col = new_col, !.cursor_row = new_row])
    IN  [b EXCEPT !.edit_original = get_cell(b.sheet, b.cursor_col, b.cursor_row).raw_input]

MoveKeys == {"Up", "Down", "Left", "Right", "Tab", "BackTab"}

cancel_edit_Commits(a) == update_status([commit_input(a) EXCEPT !.mode = "Normal"])
cancel_edit(a) == update_status([a EXCEPT !.input_buffer = <<>>, !.mode = "Normal"])

handle_edit_mode(a, key) ==
    LET c == key.code
        current_mode == a.mode
        single == current_mode \in {"EditSingle", "EditPreserve"}
    IN  CASE c = "Esc" -> cancel_edit(a)
          [] c = "Enter" ->
                LET b == commit_input(a)
                IN  IF single THEN update_status([b EXCEPT !.mode = "Normal"])
                    ELSE IF a.axis = "Row"
                    THEN continue_edit(b, Min(a.cursor_col + 1, MAX_COL), a.cursor_row)
                    ELSE continue_edit(b, a.cursor_col, Min(a.cursor_row + 1, MAX_ROW))
          [] c = "Backspace" ->
                [a EXCEPT !.input_buffer = IF a.input_buffer = <<>> THEN <<>>
                                           ELSE SubSeq(a.input_buffer, 1, Len(a.input_buffer) - 1)]
          [] c = "Delete" ->
                [a EXCEPT !.input_buffer = IF a.input_buffer = <<>> THEN <<>>
                                           ELSE Tail(a.input_buffer)]
          [] IsChar(key) -> [a EXCEPT !.input_buffer = Append(a.input_buffer, c)]
          [] c \in MoveKeys ->
                LET new_col == CASE c \in {"Left", "BackTab"} -> Max(a.cursor_col - 1, 0)
                                 [] c \in {"Right", "Tab"} -> Min(a.cursor_col + 1, MAX_COL)
                                 [] c \in {"Up", "Down"} -> a.cursor_col
                    new_row == CASE c = "Up" -> Max(a.cursor_row - 1, 0)
                                 [] c = "Down" -> Min(a.cursor_row + 1, MAX_ROW)
                                 [] c \notin {"Up", "Down"} -> a.cursor_row
                    b == commit_input(a)
                IN  IF single
                    THEN update_status(adjust_view([b EXCEPT !.mode = "Normal",
                                                             !.cursor_col = new_col,
                                                             !.cursor_row = new_row]))
                    ELSE continue_edit(b, new_col, new_row)
          [] ~IsChar(key) /\ c \notin {"Esc", "Enter", "Backspace", "Delete"} \cup MoveKeys -> a

\* the status line shows the register "* (set by '"' then '*')
star_register(a) == starts_with(Chars(a.status_message), <<"\"", "*">>)

\* handle_key whose register_pending branch keeps the flag on a key that is
\* none of '*', 'y' and 'p'
handle_key_RegisterStays(a, key) ==
    LET c == key.code
    IN  IF a.register_pending
        THEN CASE c = "*" -> [a EXCEPT !.status_message = "\"* ..."]
               [] c = "y" -> [(IF star_register(a) THEN yank_to_system(a) ELSE yank(a))
                                EXCEPT !.register_pending = FALSE]
               [] c = "p" -> [(IF star_register(a) THEN paste_from_system(a)
                               ELSE paste(clear_count(a), Max(count_of(a), 1)))
                                EXCEPT !.register_pending = FALSE]
               [] c \notin {"*", "y", "p"} -> update_status(a)
        ELSE IF a.slash_pending
        THEN CASE c = "c" -> update_status([a EXCEPT !.slash_pending = FALSE, !.axis = "Column"])
               [] c = "r" -> update_status([a EXCEPT !.slash_pending = FALSE, !.axis = "Row"])
               [] c \notin {"c", "r"} -> update_status([a EXCEPT !.slash_pending = FALSE])
        ELSE CASE a.mode = "Normal" -> handle_normal_mode(a, key)
               [] a.mode \in {"EditSingle", "EditContinuous", "EditPreserve"} -> handle_edit_mode(a, key)
               [] a.mode = "Command" -> handle_command_mode(a, key)
               [] a.mode = "Visual" -> handle_visual_mode(a, key)

\* handle_key without the register_pending branch: the key after '"' goes to
\* the handler of the mode with the flag still set
handle_key_NoRegisterBranch(a, key) ==
    LET c == key.code
    IN  IF a.slash_pending
        THEN CASE c = "c" -> update_status([a EXCEPT !.slash_pending = FALSE, !.axis = "Column"])
               [] c = "r" -> update_status([a EXCEPT !.slash_pending = FALSE, !.axis = "Row"])
               [] c \notin {"c", "r"} -> update_status([a EXCEPT !.slash_pending = FALSE])
        ELSE CASE a.mode = "Normal" -> handle_normal_mode(a, key)
               [] a.mode \in {"EditSingle", "EditContinuous", "EditPreserve"} -> handle_edit_mode(a, key)
               [] a.mode = "Command" -> handle_command_mode(a, key)
               [] a.mode = "Visual" -> handle_visual_mode(a, key)

handle_key(a, key) ==
    LET c == key.code
    IN  IF a.register_pending
        THEN CASE c = "*" -> [a EXCEPT !.status_message = "\"* ..."]
               [] c = "y" -> [(IF star_register(a) THEN yank_to_system(a) ELSE yank(a))
                                EXCEPT !.register_pending = FALSE]
               [] c = "p" -> [(IF star_register(a) THEN paste_from_system(a)
                               ELSE paste(clear_count(a), Max(count_of(a), 1)))
                                EXCEPT !.register_pending = FALSE]
               [] c \notin {"*", "y", "p"} -> update_status([a EXCEPT !.register_pending = FALSE])
        ELSE IF a.slash_pending
        THEN CASE c = "c" -> update_status([a EXCEPT !.slash_pending = FALSE, !.axis = "Column"])
               [] c = "r" -> update_status([a EXCEPT !.slash_pending = FALSE, !.axis = "Row"])
               [] c \notin {"c", "r"} -> update_status([a EXCEPT !.slash_pending = FALSE])
        ELSE CASE a.mode = "Normal" -> handle_normal_mode(a, key)
               [] a.mode \in {"EditSingle", "EditContinuous", "EditPreserve"} -> handle_edit_mode(a, key)
               [] a.mode = "Command" -> handle_command_mode(a, key)
               [] a.mode = "Visual" -> handle_visual_mode(a, key)

\* a mouse event is [kind, column, row]
SCROLL == 3
handle_mouse(a, mouse) ==
    CASE mouse.kind = "Down" ->
            LET result == screen_to_cell(a, mouse.column, mouse.row)
            IN  IF ~result.some THEN a
                ELSE LET col == result.v[1]
                         row == result.v[2]
                     IN  (CASE a.mode = "Normal" -> move_cursor_to(a, col, row)
                           [] a.mode \in {"EditSingle", "EditContinuous", "EditPreserve"} ->
                                update_status(move_cursor_to(
                                    [a EXCEPT !.input_buffer = <<>>, !.mode = "Normal"], col, row))
                           [] a.mode = "Command" ->
                                update_status(move_cursor_to(
                                    [a EXCEPT !.mode = "Normal", !.command_buffer = <<>>], col, row))
                           [] a.mode = "Visual" ->
                                LET b == move_cursor_to(a, col, row)
                                    sel == get_selection_bounds(b)
                                IN  [b EXCEPT !.status_message =
                                        "VISUAL " \o Times(sel.max_col - sel.min_col + 1,
                                                           sel.max_row - sel.min_row + 1)])
      [] mouse.kind = "ScrollUp" ->
            [a EXCEPT !.view_row = Max(a.view_row - SCROLL, 0),
                      !.cursor_row = Max(a.cursor_row - SCROLL, 0)]
      [] mouse.kind = "ScrollDown" ->
            [a EXCEPT !.view_row = Min(a.view_row + SCROLL, MAX_ROW),
                      !.cursor_row = Min(a.cursor_row + SCROLL, MAX_ROW)]

(***************************************************************************)
(* The controller: the main loop hands key and mouse events to handle_key  *)
(* and handle_mouse while app.running.  The terminal keeps the size        *)
(* TERM_WIDTH x TERM_HEIGHT.  Text is typed into the edit buffer, the      *)
(* command line and the count prefix along the texts listed below, while   *)
(* an event is left to use it; every other event counts against MaxSteps.  *)
(***************************************************************************)
MaxSteps == 3
TrailDepth == 3

EditTexts == {Chars("1"), Chars(" =B2"), Chars("=A1+1"), Chars("10")}
CommandTexts ==
    {Chars("g IV1"), Chars("go ZZ1"), Chars("g x"), Chars("dr"), Chars("ir 2"), Chars("dc B"),
     Chars("ic"), Chars("aw"), Chars("aw A:B"), Chars("set name=T"), Chars("set x"),
     Chars("clear"), Chars("/1"), Chars("?1"), Chars("q"), Chars("h"), Chars("zz"),
     Chars("e f"), Chars("e f.CSV"), Chars("import f"), Chars("e")}
CountTexts == {Chars("2"), Chars("10")}
ClipboardTexts == {Chars("1\t=A1\n"), Chars("a,b")}

IsPrefixOf(p, texts) == \E t \in texts : Len(p) <= Len(t) /\ SubSeq(t, 1, Len(p)) = p
Digits == {"0", "1", "2", "3", "4", "5", "6", "7", "8", "9"}

RegisterKeys == {Key("*"), Key("y"), Key("p"), Key("Esc"), Key("x"), Key("i")}
SlashKeys == {Key("c"), Key("r"), Key("Esc"), Key("x"), Key("i")}
NormalCommandKeys ==
    {Key(c) : c \in (NormalKeys \ Digits) \cup {"z"}}
        \cup {Ctrl(c) : c \in {"q", "r", "f", "b", "d", "u", "z"}}
EditControlKeys ==
    {Key(c) : c \in {"Esc", "Enter", "Backspace", "Delete", "F2"} \cup MoveKeys}
CommandControlKeys == {Key(c) : c \in {"Esc", "Enter", "Backspace", "Up"}}
TypedKeys == {Key(c) : c \in UNION {{t[i] : i \in 1..Len(t)} :
                                      t \in EditTexts \cup CommandTexts \cup CountTexts}}
VisualModeKeys == {Key(c) : c \in VisualKeys \cup {"z"}}
Clicks == {[kind |-> "Down", column |-> 5, row |-> 2],
           [kind |-> "Down", column |-> 30, row |-> 12],
           [kind |-> "Down", column |-> 2, row |-> 12],
           [kind |-> "Down", column |-> 30, row |-> 23]}
Scrolls == {[kind |-> "ScrollUp", column |-> 0, row |-> 0],
            [kind |-> "ScrollDown", column |-> 0, row |-> 0]}

\* the trail after one more event
Trailed(op, change, event) ==
    SubSeq(<<[op |-> op, before |-> sheet, change |-> change, event |-> event]>> \o trail,
           1, Min(Len(trail) + 1, TrailDepth))

\* the App after the event becomes the state; the trail takes the event
Handled(b, cost) ==
    /\ sheet' = b.sheet
    /\ mode' = b.mode
    /\ axis' = b.axis
    /\ input_buffer' = b.input_buffer
    /\ command_buffer' = b.command_buffer
    /\ status_message' = b.status_message
    /\ cursor_col' = b.cursor_col
    /\ cursor_row' = b.cursor_row
    /\ view_col' = b.view_col
    /\ view_row' = b.view_row
    /\ clipboard' = b.clipboard
    /\ undo_stack' = b.undo_stack
    /\ redo_stack' = b.redo_stack
    /\ running' = b.running
    /\ pending_operator' = b.pending_operator
    /\ count_buffer' = b.count_buffer
    /\ slash_pending' = b.slash_pending
    /\ visual_start_col' = b.visual_start_col
    /\ visual_start_row' = b.visual_start_row
    /\ edit_original' = b.edit_original
    /\ last_search' = b.last_search
    /\ search_forward' = b.search_forward
    /\ register_pending' = b.register_pending
    /\ last_paste_cols' = b.last_paste_cols
    /\ last_paste_rows' = b.last_paste_rows
    /\ system_clipboard' = b.system_clipboard
    /\ current_file' = b.current_file
    /\ trail' = Trailed(b.op, b.change, b.event)
    /\ edit_cursor' = IF b.mode \notin {"EditSingle", "EditContinuous", "EditPreserve"} THEN None
                      ELSE IF b.mode = mode THEN edit_cursor
                      ELSE Some(<<b.cursor_col, b.cursor_row>>)
    /\ steps' = steps + cost
    /\ UNCHANGED <<eval_result, rewrite>>

\* the keys pressed in the current state, by what handle_key will do with them
ControlKeys ==
    IF register_pending THEN RegisterKeys
    ELSE IF slash_pending THEN SlashKeys
    ELSE CASE mode = "Normal" -> NormalCommandKeys
           [] mode \in {"EditSingle", "EditContinuous", "EditPreserve"} -> EditControlKeys
           [] mode = "Command" -> CommandControlKeys
           [] mode = "Visual" -> VisualModeKeys

\* the characters that carry on one of the texts: a digit of a count prefix, a
\* character of the cell under edit, a character of the command line
TextKeys ==
    IF register_pending \/ slash_pending THEN {}
    ELSE CASE mode = "Normal" ->
                {key \in TypedKeys : /\ key.code \in Digits
                                     /\ IsPrefixOf(Append(count_buffer, key.code), CountTexts)}
           [] mode \in {"EditSingle", "EditContinuous", "EditPreserve"} ->
                {key \in TypedKeys : IsPrefixOf(Append(input_buffer, key.code), EditTexts)}
           [] mode = "Command" ->
                {key \in TypedKeys : IsPrefixOf(Append(command_buffer, key.code), CommandTexts)}
           [] mode = "Visual" -> {}

EditModes == {"EditSingle", "EditContinuous", "EditPreserve"}
\* what the key about to be handled is: the '*' that selects the system
\* register, or the cancel or commit of the cell under edit together with
\* whether input_buffer holds text when it arrives
EventOf(key) ==
    IF register_pending
    THEN (IF key.code = "*" THEN [kind |-> "star", typed |-> FALSE] ELSE PlainEvent)
    ELSE IF mode \notin EditModes THEN PlainEvent
    ELSE IF key.code = "Esc" THEN [kind |-> "cancel", typed |-> input_buffer # <<>>]
    ELSE IF key.code \in {"Enter"} \cup MoveKeys
    THEN [kind |-> "commit", typed |-> input_buffer # <<>>]
    ELSE PlainEvent

\* what the file system may hold under the name a command gives: nothing, a
\* text that is no JSON, a saved sheet
Missing == [readable |-> FALSE, json |-> None, lines |-> <<>>]
CsvFile == [readable |-> TRUE, json |-> None,
            lines |-> <<Chars("1,\"a,\"\"b\",=A1"), Chars(",x")>>]
JsonFile ==
    [readable |-> TRUE,
     json |-> Some([name |-> "T", col_widths |-> {<<Chars("B"), 12>>},
                    cells |-> {[name |-> Chars("A1"), value |-> Chars("1"), formula |-> None],
                               [name |-> Chars("B2"), value |-> Chars("2"),
                                formula |-> Some(Chars("=A1+1"))]}]),
     lines |-> <<Chars("{\"version\":\"1.0\",\"name\":\"T\",\"col_widths\":{\"B\":12},"
                       \o "\"cells\":{\"A1\":{\"value\":\"1\"},"
                       \o "\"B2\":{\"value\":\"2\",\"formula\":\"=A1+1\"}}}")>>]
Files == {Missing, CsvFile, JsonFile}
ReadsFile(cmd0) ==
    LET parts == splitn2(trim(cmd0), " ")
    IN  /\ Str(to_lowercase(parts.first)) \in {"e", "edit", "open", "import"}
        /\ parts.rest # <<>>
FileReads(key) ==
    IF mode = "Command" /\ key.code = "Enter" /\ ReadsFile(command_buffer) THEN Files
    ELSE {NoRead}

\* handle_key on `key`, with whatever the file system holds when it reads
KeyRead(key, file, cost) ==
    \E b \in {[handle_key([App EXCEPT !.file = file], key) EXCEPT !.event = EventOf(key)]} :
        Handled(b, cost)
KeyHandled(key, cost) == \E file \in FileReads(key) : KeyRead(key, file, cost)

KeyPressOf(key) ==
    /\ running
    /\ steps < MaxSteps
    /\ KeyHandled(key, 1)
KeyPress == \E key \in ControlKeys : KeyPressOf(key)

KeyTypedOf(key) ==
    /\ running
    /\ steps < MaxSteps
    /\ \E b \in {handle_key(App, key)} : Handled(b, 0)
KeyTyped == \E key \in TextKeys : KeyTypedOf(key)

MouseHandled(mouse) ==
    \E b \in {[handle_mouse(App, mouse) EXCEPT !.event = [kind |-> "mouse", typed |-> FALSE]]} :
        Handled(b, 1)

MouseDown == \E mouse \in Clicks :
    /\ running
    /\ steps < MaxSteps
    /\ MouseHandled(mouse)

MouseScroll == \E mouse \in Scrolls :
    /\ running
    /\ steps < MaxSteps
    /\ MouseHandled(mouse)

\* another program puts a text on the system clipboard
ExternalCopy == \E text \in ClipboardTexts :
    /\ running
    /\ steps < MaxSteps
    /\ system_clipboard' = text
    /\ trail' = Trailed("external", NoChange, PlainEvent)
    /\ steps' = steps + 1
    /\ UNCHANGED <<sheet, mode, axis, input_buffer, command_buffer, status_message, cursor_col,
                   cursor_row, view_col, view_row, clipboard, undo_stack, redo_stack, running,
                   pending_operator, count_buffer, slash_pending, visual_start_col,
                   visual_start_row, edit_original, last_search, search_forward,
                   register_pending, last_paste_cols, last_paste_rows, current_file,
                   edit_cursor, eval_result, rewrite>>

Next ==
    \/ KeyPress
    \/ KeyTyped
    \/ MouseDown
    \/ MouseScroll
    \/ ExternalCopy

Spec == Init /\ [][Next]_vars

\* the undo stack after save_undo has pushed `snapshot` onto `stack`
Pushed(stack, snapshot) ==
    IF Len(stack) < UNDO_LIMIT THEN Append(stack, snapshot)
    ELSE Append(Tail(stack), snapshot)
\* the step just taken was an event of the kind `op`
StepWas(op) == Len(trail') > 0 /\ trail'[1].op = op

\* C3: after a single controller action that changed the Sheet, an undo issued
\* immediately afterwards returns the Sheet (cells, column widths, name) to its
\* state before the action, and a redo issued immediately after that undo
\* returns it to its state after the action.
C3_UndoRestoresRedoReapplies ==
    /\ (/\ Len(trail) >= 2
        /\ trail[1].op = "undo" /\ trail[2].op = "other"
        /\ trail[1].before # trail[2].before)
            => sheet = trail[2].before
    /\ (/\ Len(trail) >= 3
        /\ trail[1].op = "redo" /\ trail[2].op = "undo" /\ trail[3].op = "other"
        /\ trail[2].before # trail[3].before)
            => sheet = trail[2].before

\* C4: every controller action that changes the Sheet (undo and redo apart)
\* pushes exactly one snapshot of the Sheet before the action onto the undo
\* stack and empties the redo stack.
C4_MutationPushesSnapshot ==
    [][(sheet' # sheet /\ StepWas("other"))
            => (undo_stack' = Pushed(undo_stack, sheet) /\ redo_stack' = <<>>)]_vars

\* C6: undo with an empty undo stack leaves the Sheet, the undo stack and the
\* redo stack as they were and sets the status message to "Nothing to undo".
C6_UndoOnEmptyStack ==
    [][(StepWas("undo") /\ undo_stack = <<>>)
            => /\ sheet' = sheet
               /\ undo_stack' = <<>>
               /\ redo_stack' = redo_stack
               /\ status_message' = "Nothing to undo"]_vars

\* an undo has just been answered with "Nothing to undo" while the redo stack
\* holds a snapshot
C6_Witness ==
    /\ Len(trail) > 0 /\ trail[1].op = "undo"
    /\ undo_stack = <<>> /\ redo_stack # <<>>
    /\ status_message = "Nothing to undo"

\* C38: register_pending and slash_pending are never both true; slash_pending
\* is true only in Normal mode and register_pending only in Normal or Visual
\* mode, so both are false in EditSingle, EditContinuous, EditPreserve and
\* Command.
C38_PendingFlags ==
    /\ ~(register_pending /\ slash_pending)
    /\ slash_pending => mode = "Normal"
    /\ register_pending => mode \in {"Normal", "Visual"}

\* 'v', '"' and '*' have been pressed: the register prefix waits in Visual mode
C38_Witness ==
    /\ register_pending /\ ~slash_pending
    /\ mode = "Visual"
    /\ status_message = "\"* ..."

\* the App after one and after three presses of Esc in the current state
EscOnce == handle_key(App, Key("Esc"))
EscThrice == handle_key(handle_key(EscOnce, Key("Esc")), Key("Esc"))

\* C40: from every reachable state, three consecutive Esc key presses lead to
\* mode Normal with pending_operator None, count_buffer empty, register_pending
\* and slash_pending false, and change neither the Sheet nor the undo and redo
\* stacks.
C40_ThreeEscQuiesce ==
    LET after == EscThrice
    IN  /\ after.mode = "Normal"
        /\ after.pending_operator = None
        /\ after.count_buffer = <<>>
        /\ ~after.register_pending /\ ~after.slash_pending
        /\ after.sheet = sheet
        /\ after.undo_stack = undo_stack
        /\ after.redo_stack = redo_stack

\* a state that takes all three: a count typed, Visual mode entered and the
\* register prefix pressed, so that the first Esc only drops the prefix, the
\* second leaves Visual mode and the third clears the count
C40_Witness ==
    /\ mode = "Visual" /\ register_pending /\ count_buffer # <<>>
    /\ handle_key(EscOnce, Key("Esc")).count_buffer # <<>>

\* C7: in every reachable state cursor_col is in [0,255] and cursor_row is in
\* [0,9999].
C7_CursorInGrid ==
    /\ 0 <= cursor_col /\ cursor_col <= MAX_COL
    /\ 0 <= cursor_row /\ cursor_row <= MAX_ROW

\* C8: in every reachable state view_col <= cursor_col and view_row <=
\* cursor_row, and after every event that moves the cursor the cursor row lies
\* in the visible window [view_row, view_row + visible_rows).
C8_ViewFollowsCursor ==
    /\ [](view_col <= cursor_col /\ view_row <= cursor_row)
    /\ [][(cursor_col' # cursor_col \/ cursor_row' # cursor_row)
            => (view_row' <= cursor_row' /\ cursor_row' < view_row' + visible_rows)]_vars

\* the step just taken was a key of the kind `kind` in an Edit mode, with
\* (typed) or without text in input_buffer
StepEvent(kind, typed) ==
    Len(trail') > 0 /\ trail'[1].event = [kind |-> kind, typed |-> typed]

\* C18: after a row or column insert or delete made through the controller
\* (dd, o, O, :delrow, :delcol, :insrow, :inscol), every cell of the Sheet
\* whose value is a Formula holds the raw_input it had before, rewritten for
\* that change.
CameFrom(k, change) ==
    CASE change.kind = "RowInsert" -> IF k[2] > change.at THEN <<k[1], k[2] - 1>> ELSE k
      [] change.kind = "RowDelete" -> IF k[2] >= change.at THEN <<k[1], k[2] + 1>> ELSE k
      [] change.kind = "ColInsert" -> IF k[1] > change.at THEN <<k[1] - 1, k[2]>> ELSE k
      [] change.kind = "ColDelete" -> IF k[1] >= change.at THEN <<k[1] + 1, k[2]>> ELSE k
C18_FormulasRewritten ==
    (Len(trail) > 0 /\ trail[1].change # NoChange) =>
        \A k \in DOMAIN sheet.cells :
            sheet.cells[k].value.tag = "Formula" =>
                /\ CameFrom(k, trail[1].change) \in DOMAIN trail[1].before.cells
                /\ sheet.cells[k].raw_input =
                      adjust_formula_for_structure_change(
                          trail[1].before.cells[CameFrom(k, trail[1].change)].raw_input,
                          trail[1].change)

\* C19: Esc pressed in EditSingle, EditContinuous or EditPreserve sets the mode
\* to Normal, empties input_buffer, and leaves the Sheet, the undo stack and
\* the redo stack unchanged.
C19_EscCancelsEdit ==
    [][(StepEvent("cancel", TRUE) \/ StepEvent("cancel", FALSE))
          => /\ mode' = "Normal"
             /\ input_buffer' = <<>>
             /\ sheet' = sheet
             /\ undo_stack' = undo_stack
             /\ redo_stack' = redo_stack]_vars

\* Esc has discarded a typed text after an earlier commit: the Sheet is the one
\* before the key and the undo stack still holds its one snapshot
C19_Witness ==
    /\ Len(trail) > 0
    /\ trail[1].event = [kind |-> "cancel", typed |-> TRUE]
    /\ mode = "Normal" /\ input_buffer = <<>>
    /\ sheet = trail[1].before /\ sheet # Sheet_new
    /\ Len(undo_stack) = 1

\* C20: on a commit key (Enter, an arrow, Tab, BackTab) in an Edit mode, if
\* input_buffer is not empty one undo snapshot of the Sheet is pushed and
\* set_cell(cursor, input_buffer) is applied at the cursor the key found; if
\* input_buffer is empty, the Sheet and the undo and redo stacks are unchanged.
C20_CommitWritesOnce ==
    [][/\ StepEvent("commit", TRUE)
            => /\ undo_stack' = Pushed(undo_stack, sheet)
               /\ sheet' = set_cell(sheet, cursor_col, cursor_row, input_buffer)
       /\ StepEvent("commit", FALSE)
            => /\ sheet' = sheet
               /\ undo_stack' = undo_stack
               /\ redo_stack' = redo_stack]_vars

\* a commit key has written A1 and then moved the cursor off it
C20_Witness ==
    /\ Len(trail) > 0
    /\ trail[1].event = [kind |-> "commit", typed |-> TRUE]
    /\ <<0, 0>> \notin DOMAIN trail[1].before.cells
    /\ <<0, 0>> \in DOMAIN sheet.cells
    /\ <<cursor_col, cursor_row>> # <<0, 0>>
    /\ Len(undo_stack) = 1

\* the step just taken was a commit key in an Edit mode
StepCommit == StepEvent("commit", TRUE) \/ StepEvent("commit", FALSE)

\* C39: in EditSingle and EditPreserve the cell written on commit is the cell
\* that was under the cursor when the edit mode was entered, whatever mouse
\* events (click, scroll up, scroll down) came between.
C39_CommitWritesEntryCell ==
    [][(StepEvent("commit", TRUE) /\ mode \in {"EditSingle", "EditPreserve"})
            => sheet' = set_cell(sheet, edit_cursor.v[1], edit_cursor.v[2], input_buffer)]_vars

\* C21: after a commit key the mode is Normal if the edit mode was EditSingle
\* or EditPreserve and is still EditContinuous if it was EditContinuous; in
\* EditContinuous, Enter moves the cursor one cell along the edit axis, no
\* further than the last column or row, and leaves input_buffer empty.
C21_CommitModeAndAdvance ==
    [][/\ (StepCommit /\ mode \in {"EditSingle", "EditPreserve"}) => mode' = "Normal"
       /\ (StepCommit /\ mode = "EditContinuous") => mode' = "EditContinuous"
       /\ (mode = "EditContinuous" /\ KeyPressOf(Key("Enter")))
            => /\ input_buffer' = <<>>
               /\ axis = "Row" =>
                    cursor_col' = Min(cursor_col + 1, MAX_COL) /\ cursor_row' = cursor_row
               /\ axis = "Column" =>
                    cursor_row' = Min(cursor_row + 1, MAX_ROW) /\ cursor_col' = cursor_col]_vars

\* a commit key in EditContinuous has written A1, the cursor stands on B1 and
\* the mode is still EditContinuous
C21_Witness ==
    /\ Len(trail) > 0
    /\ trail[1].event = [kind |-> "commit", typed |-> TRUE]
    /\ mode = "EditContinuous" /\ input_buffer = <<>>
    /\ <<0, 0>> \in DOMAIN sheet.cells /\ <<0, 0>> \notin DOMAIN trail[1].before.cells
    /\ cursor_col = 1 /\ cursor_row = 0

\* C25: a pending operator set by d or g in Normal mode affects only the
\* keystroke that follows it: once that keystroke is handled pending_operator
\* is None, except that g after d leaves the state dg ('D') that awaits the
\* second g.
C25_PendingOnlyNextKey ==
    [][(/\ pending_operator.some
        /\ \/ \E key \in ControlKeys : KeyPressOf(key)
           \/ \E key \in TextKeys : KeyTypedOf(key))
          => \/ pending_operator' = None
             \/ pending_operator = Some("d") /\ pending_operator' = Some("D")]_vars


(***************************************************************************)
(* A session on a saved sheet: vicalc started with a file name runs        *)
(* execute_command("e <filename>") before the main loop (main.rs), so the  *)
(* session begins on the loaded Sheet with one snapshot on the undo stack. *)
(* SavedFile is a file save_json writes: A1 = "=B1", B1 = "2", A2 = " =B2" *)
(* (a Formula, saved with its raw_input), B2 = "=A10001" and IV1 = "x" in  *)
(* the last column.  The keys are those of yank and paste, the Visual      *)
(* selection, the registers, the axis, undo, shift-insert, a row insert    *)
(* beyond the grid and the load and the import of another file.            *)
(***************************************************************************)
MaxSessionSteps == 5
SavedFile ==
    [readable |-> TRUE,
     json |-> Some([name |-> "Book", col_widths |-> {},
                    cells |-> {[name |-> Chars("A1"), value |-> Chars("2"),
                                formula |-> Some(Chars("=B1"))],
                               [name |-> Chars("B1"), value |-> Chars("2"), formula |-> None],
                               [name |-> Chars("A2"), value |-> Chars("0"),
                                formula |-> Some(Chars(" =B2"))],
                               [name |-> Chars("B2"), value |-> Chars("#REF!"),
                                formula |-> Some(Chars("=A10001"))],
                               [name |-> Chars("IV1"), value |-> Chars("x"), formula |-> None]}]),
     lines |-> <<Chars("{\"version\":\"1.0\",\"name\":\"Book\",\"cells\":{"
                       \o "\"A1\":{\"value\":\"2\",\"formula\":\"=B1\"},"
                       \o "\"B1\":{\"value\":\"2\"},"
                       \o "\"A2\":{\"value\":\"0\",\"formula\":\" =B2\"},"
                       \o "\"B2\":{\"value\":\"#REF!\",\"formula\":\"=A10001\"},"
                       \o "\"IV1\":{\"value\":\"x\"}}}")>>]
SessionCommands == {Chars("ir 10001"), Chars("e g"), Chars("import g")}
SessionCounts == {Chars("2")}
SessionClick == [kind |-> "Down", column |-> 30, row |-> 4]

SessionKeys ==
    IF register_pending THEN {Key("*"), Key("y"), Key("p")}
    ELSE IF slash_pending THEN {Key("c")}
    ELSE CASE mode = "Normal" ->
                {Key(c) : c \in {"l", "j", "v", "y", "p", "u", "i", ":", "\"", "/"}}
           [] mode \in {"EditSingle", "EditContinuous", "EditPreserve"} -> {Key("Esc")}
           [] mode = "Command" -> {Key("Enter")}
           [] mode = "Visual" -> {Key(c) : c \in {"l", "j", "d", "x", "y", "\""}}
SessionTextKeys ==
    IF register_pending \/ slash_pending THEN {}
    ELSE CASE mode = "Normal" ->
                {key \in TypedKeys : /\ key.code \in Digits
                                     /\ IsPrefixOf(Append(count_buffer, key.code), SessionCounts)}
           [] mode = "Command" ->
                {Key(t[Len(command_buffer) + 1]) :
                    t \in {u \in SessionCommands :
                              /\ Len(u) > Len(command_buffer)
                              /\ SubSeq(u, 1, Len(command_buffer)) = command_buffer}}
           [] mode \notin {"Normal", "Command"} -> {}

InitSession ==
    /\ AppIs(execute_command([App_new EXCEPT !.file = SavedFile], Chars("e f")))
    /\ trail = <<>>
    /\ edit_cursor = None
    /\ eval_result = NoResult
    /\ rewrite = NoCall
    /\ steps = 0

SessionPress == \E key \in SessionKeys :
    /\ running
    /\ steps < MaxSessionSteps
    /\ KeyHandled(key, 1)
SessionTyped == \E key \in SessionTextKeys :
    /\ running
    /\ steps < MaxSessionSteps
    /\ KeyHandled(key, 0)
SessionMouse ==
    /\ running
    /\ steps < MaxSessionSteps
    /\ MouseHandled(SessionClick)

NextSession ==
    \/ SessionPress
    \/ SessionTyped
    \/ SessionMouse

SpecSession == InitSession /\ [][NextSession]_vars

\* the step is d or x pressed in Visual mode
StepVisualClear ==
    /\ mode = "Visual"
    /\ ~register_pending
    /\ steps < MaxSessionSteps
    /\ KeyHandled(Key("d"), 1) \/ KeyHandled(Key("x"), 1)
InSelection(k) ==
    /\ Min(visual_start_col, cursor_col) <= k[1] /\ k[1] <= Max(visual_start_col, cursor_col)
    /\ Min(visual_start_row, cursor_row) <= k[2] /\ k[2] <= Max(visual_start_row, cursor_row)

\* C22: d or x in Visual mode removes every cell of the rectangle between
\* (visual_start_col, visual_start_row) and the cursor, leaves every cell outside
\* it as it was, pushes exactly one snapshot (the Sheet before) onto the undo
\* stack, and one undo right after brings the Sheet before back.
C22_VisualClear ==
    [][StepVisualClear =>
          /\ DOMAIN sheet'.cells = {k \in DOMAIN sheet.cells : ~InSelection(k)}
          /\ \A k \in DOMAIN sheet'.cells : sheet'.cells[k] = sheet.cells[k]
          /\ undo_stack' = Pushed(undo_stack, sheet)
          /\ undo(App').sheet = sheet]_vars
\* v, l, j and d on the loaded Sheet: the four cells of A1:B2 are gone, IV1 is
\* there, the stack holds the snapshot of the load and the one of the clear
C22_Witness ==
    /\ status_message = "4 cells cleared"
    /\ mode = "Normal"
    /\ Len(trail) > 0
    /\ {<<0, 0>>, <<1, 0>>, <<0, 1>>, <<1, 1>>} \subseteq DOMAIN trail[1].before.cells
    /\ DOMAIN sheet.cells = {<<255, 0>>}
    /\ Len(undo_stack) = 2


\* the step is p pressed in Normal mode on a clipboard that holds a yank, with
\* no register and no count prefix pending
StepPaste ==
    /\ mode = "Normal"
    /\ ~register_pending
    /\ count_buffer = <<>>
    /\ clipboard.some
    /\ steps < MaxSessionSteps
    /\ KeyHandled(Key("p"), 1)
\* what the paste of the clipboard cell at offset o is to write at the cursor
Shifted(o) ==
    LET source == clipboard.v.cells[o]
    IN  IF source.value.tag = "Formula"
        THEN adjust_formula(source.raw_input, cursor_col - clipboard.v.start_col,
                            cursor_row - clipboard.v.start_row)
        ELSE source.raw_input

\* C23: p writes every cell of the clipboard, at offset (c, r), to
\* (cursor_col + c, cursor_row + r): a cell that holds a formula with its
\* relative references shifted by (cursor - clipboard origin), every other
\* cell with its raw_input as it is.
C23_PasteShiftsFormulas ==
    [][StepPaste =>
          \A o \in DOMAIN clipboard.v.cells :
              /\ <<cursor_col + o[1], cursor_row + o[2]>> \in DOMAIN sheet'.cells
              /\ sheet'.cells[<<cursor_col + o[1], cursor_row + o[2]>>].raw_input = Shifted(o)]_vars


\* the step is p pressed in Normal mode after a count prefix
StepCountPaste ==
    /\ mode = "Normal"
    /\ ~register_pending
    /\ ~slash_pending
    /\ count_buffer # <<>>
    /\ clipboard.some
    /\ steps < MaxSessionSteps
    /\ KeyHandled(Key("p"), 1)
\* where the k-th copy starts
CopyCol(k) == IF axis = "Row" THEN cursor_col + k * clipboard.v.width ELSE cursor_col
CopyRow(k) == IF axis = "Row" THEN cursor_row ELSE cursor_row + k * clipboard.v.height
\* what the k-th copy is to hold for the clipboard cell at offset o
ShiftedCopy(k, o) ==
    LET source == clipboard.v.cells[o]
    IN  IF source.value.tag = "Formula"
        THEN adjust_formula(source.raw_input, CopyCol(k) - clipboard.v.start_col,
                            CopyRow(k) - clipboard.v.start_row)
        ELSE source.raw_input

\* C24: p after the count prefix N writes N copies of the clipboard, the k-th
\* (k = 0..N-1) with its origin at the cursor advanced by k times the clipboard
\* width (Row axis) or height (Column axis) and its formulas adjusted for that
\* destination; the whole paste pushes one snapshot and empties the count buffer.
C24_CountPaste ==
    [][StepCountPaste =>
          /\ \A k \in 0..(count_of(App) - 1) : \A o \in DOMAIN clipboard.v.cells :
                /\ <<CopyCol(k) + o[1], CopyRow(k) + o[2]>> \in DOMAIN sheet'.cells
                /\ sheet'.cells[<<CopyCol(k) + o[1], CopyRow(k) + o[2]>>].raw_input
                       = ShiftedCopy(k, o)
          /\ undo_stack' = Pushed(undo_stack, sheet)
          /\ count_buffer' = <<>>]_vars


\* '"' and then '*' have been pressed and only mouse events have come since
StarSelected ==
    /\ register_pending
    /\ \E i \in 1..Len(trail) :
          /\ trail[i].event.kind = "star"
          /\ \A j \in 1..(i - 1) : trail[j].event.kind = "mouse"
StepKey(c) == steps < MaxSessionSteps /\ KeyHandled(Key(c), 1)

\* C26: once '"' and '*' have been pressed, the next y yanks to the system
\* clipboard and the next p pastes from it, whatever mouse events are handled
\* in between; without the '*' after '"', y and p leave the system clipboard
\* alone and work on the internal one.
C26_StarRegister ==
    [][/\ (StarSelected /\ StepKey("y")) =>
              /\ system_clipboard' = yank_to_system(App).system_clipboard
              /\ clipboard' = clipboard
       /\ (StarSelected /\ StepKey("p")) =>
              /\ sheet' = paste_from_system(App).sheet
              /\ status_message' = paste_from_system(App).status_message
       /\ (~StarSelected /\ ~slash_pending /\ StepKey("y") /\ mode \in {"Normal", "Visual"}) =>
              /\ system_clipboard' = system_clipboard
              /\ clipboard' = yank(App).clipboard
       /\ (~StarSelected /\ ~slash_pending /\ StepKey("p") /\ mode = "Normal") =>
              /\ system_clipboard' = system_clipboard
              /\ sheet' = paste(App, Max(count_of(App), 1)).sheet]_vars


\* the structural change lies outside the grid
OutOfGrid(change) ==
    \/ change.kind \in {"RowInsert", "RowDelete"} /\ change.at > MAX_ROW
    \/ change.kind \in {"ColInsert", "ColDelete"} /\ change.at > MAX_COL

\* C27: an insert or delete of a row beyond 9999 or of a column beyond 255
\* leaves the cells of the Sheet, and so the raw_input of every formula, as
\* they were.
C27_OutOfRangeNoOp ==
    [][(Len(trail') > 0 /\ OutOfGrid(trail'[1].change)) => sheet'.cells = sheet.cells]_vars


\* C28: every key (col, row) of the Sheet's cell map lies in the grid, col in
\* [0, 255] and row in [0, 9999], whatever the controller has done.
C28_CellsInGrid ==
    \A k \in DOMAIN sheet.cells : 0 <= k[1] /\ k[1] <= MAX_COL /\ 0 <= k[2] /\ k[2] <= MAX_ROW


\* the file cannot be loaded by the command in command_buffer: it cannot be
\* read, or it is to be read as JSON and is no saved sheet
Unloadable(file) ==
    LET parts == splitn2(trim(command_buffer), " ")
    IN  \/ ~file.readable
        \/ /\ Str(to_lowercase(parts.first)) \in {"e", "edit", "open"}
           /\ extension(parts.rest) # <<"c", "s", "v">>
           /\ ~file.json.some
\* the step is Enter on a load or import command whose file cannot be loaded
StepFailedLoad ==
    /\ mode = "Command"
    /\ ~register_pending
    /\ ~slash_pending
    /\ ReadsFile(command_buffer)
    /\ steps < MaxSessionSteps
    /\ \E file \in Files : Unloadable(file) /\ KeyRead(Key("Enter"), file, 1)

\* C29: a load or import that fails, because the file cannot be read or
\* parsed, leaves the Sheet, the undo stack, the redo stack and the cursor (and
\* the view, the clipboard and the current file name) as they were and reports
\* the error in the status message.
C29_FailedLoadChangesNothing ==
    [][StepFailedLoad =>
          /\ sheet' = sheet
          /\ undo_stack' = undo_stack
          /\ redo_stack' = redo_stack
          /\ cursor_col' = cursor_col /\ cursor_row' = cursor_row
          /\ view_col' = view_col /\ view_row' = view_row
          /\ clipboard' = clipboard
          /\ current_file' = current_file
          /\ starts_with(Chars(status_message'), Chars("Error "))]_vars
\* j, then ":e g" on a file that is no JSON: the error is on the status line,
\* the loaded Sheet, its snapshot and the cursor on A2 are still there
C29_Witness ==
    /\ status_message = "Error loading: " \o JsonError
    /\ mode = "Normal"
    /\ cursor_col = 0 /\ cursor_row = 1
    /\ <<0, 0>> \in DOMAIN sheet.cells
    /\ Len(undo_stack) = 1
    /\ current_file = Some("f")

(***************************************************************************)
(* The undo stack at its limit: the same handlers, driven far enough to    *)
(* fill the stack.  A1 is typed once; every 'O' then inserts a row above   *)
(* it, so that each snapshot differs from the one before; 'u' and Ctrl+R   *)
(* come in between, up to MaxCapRedo snapshots deep.                       *)
(***************************************************************************)
MaxCapRows == 102
MaxCapRedo == 3

\* 'r', the text "1" and Enter while the Sheet is empty; then 'O', 'u' and Ctrl+R
CapKeys ==
    IF mode = "Normal"
    THEN (IF sheet.cells = EmptyMap THEN {Key("r")} ELSE {})
         \cup (IF max_row(sheet).some /\ max_row(sheet).v < MaxCapRows THEN {Key("O")} ELSE {})
         \cup (IF Len(redo_stack) < MaxCapRedo THEN {Key("u")} ELSE {})
         \cup {Ctrl("r")}
    ELSE IF mode = "EditSingle"
    THEN IF input_buffer = <<>> THEN {Key("1")} ELSE {Key("Enter")}
    ELSE {}

CapKey == \E key \in CapKeys :
    /\ running
    /\ \E b \in {handle_key(App, key)} : Handled(b, 0)

NextUndoCap == CapKey

SpecUndoCap == Init /\ [][NextUndoCap]_vars

\* C5: the undo stack never holds more than 100 snapshots, and a push onto a
\* stack of 100 discards the oldest snapshot and keeps the 99 newest in order,
\* below the new one.
C5_UndoStackCapped ==
    /\ [](Len(undo_stack) <= UNDO_LIMIT)
    /\ [][(Len(undo_stack) = UNDO_LIMIT /\ StepWas("other") /\ sheet' # sheet)
            => undo_stack' = Append(Tail(undo_stack), sheet)]_vars

\* the stack is full and the first snapshot ever taken, the new Sheet, has been
\* discarded by the push just made
C5_Witness ==
    /\ Len(undo_stack) = UNDO_LIMIT
    /\ undo_stack[1] # Sheet_new
    /\ Len(trail) > 0 /\ trail[1].op = "other"

\* C37: undo and redo conserve snapshots: an undo takes the top of the undo
\* stack and puts the Sheet on the redo stack, a redo does the reverse, so the
\* two lengths together are unchanged by undo and redo and never exceed 100;
\* and the redo stack is non-empty only if no snapshot has been pushed since
\* the last undo: a push empties it and only an undo makes it grow.
C37_UndoRedoConserve ==
    /\ [](Len(undo_stack) + Len(redo_stack) <= UNDO_LIMIT)
    /\ [][(StepWas("undo") \/ StepWas("redo"))
            => Len(undo_stack') + Len(redo_stack') = Len(undo_stack) + Len(redo_stack)]_vars
    /\ [][(StepWas("undo") /\ undo_stack # <<>>)
            => /\ undo_stack' = SubSeq(undo_stack, 1, Len(undo_stack) - 1)
               /\ redo_stack' = Append(redo_stack, sheet)]_vars
    /\ [][(StepWas("redo") /\ redo_stack # <<>>)
            => /\ redo_stack' = SubSeq(redo_stack, 1, Len(redo_stack) - 1)
               /\ undo_stack' = Append(undo_stack, sheet)]_vars
    /\ [][(StepWas("other") /\ undo_stack' # undo_stack) => redo_stack' = <<>>]_vars
    /\ [][Len(redo_stack') > Len(redo_stack) => StepWas("undo")]_vars

\* a redo has just been answered from a redo stack of two, 100 pushes after
\* the stack was empty: the two stacks hold 100 snapshots together
C37_Witness ==
    /\ Len(trail) > 0 /\ trail[1].op = "redo"
    /\ redo_stack # <<>>
    /\ Len(undo_stack) + Len(redo_stack) = UNDO_LIMIT

(***************************************************************************)
(* The Sheet on its own: any sequence of the operations of sheet.rs, the   *)
(* structural ones paired with their formula fix-up in the order every     *)
(* caller uses (adjust_formulas_for_*, then the move).                     *)
(***************************************************************************)
MaxSheetSteps == 3
SheetCols == {0, 1}
SheetRows == {0, 1}
SheetInputs ==
    {Chars("1"), Chars(" "), Chars("x "), Chars("=A1+1"), Chars(" =B2"), Chars("=$A2+B$1"),
     Chars("=a2")}

SheetStep(sh) ==
    /\ steps < MaxSheetSteps
    /\ steps' = steps + 1
    /\ sheet' = sh
    /\ UNCHANGED <<app_vars, trail, edit_cursor, eval_result, rewrite>>

SheetSetCell == \E c \in SheetCols, r \in SheetRows, input \in SheetInputs :
    SheetStep(set_cell(sheet, c, r, input))
SheetClearCell == \E c \in SheetCols, r \in SheetRows : SheetStep(clear_cell(sheet, c, r))
SheetShiftRight == \E c \in SheetCols, r \in SheetRows : SheetStep(shift_cells_right(sheet, c, r))
SheetShiftDown == \E c \in SheetCols, r \in SheetRows : SheetStep(shift_cells_down(sheet, c, r))
SheetInsertRow == \E r \in SheetRows :
    SheetStep(insert_row(adjust_formulas_for_row_insert(sheet, r), r))
SheetDeleteRowAt(r) == SheetStep(delete_row(adjust_formulas_for_row_delete(sheet, r), r))
SheetDeleteRow == \E r \in SheetRows : SheetDeleteRowAt(r)
SheetInsertCol == \E c \in SheetCols :
    SheetStep(insert_col(adjust_formulas_for_col_insert(sheet, c), c))
SheetDeleteCol == \E c \in SheetCols :
    SheetStep(delete_col(adjust_formulas_for_col_delete(sheet, c), c))

NextSheet ==
    \/ SheetSetCell
    \/ SheetClearCell
    \/ SheetShiftRight
    \/ SheetShiftDown
    \/ SheetInsertRow
    \/ SheetDeleteRow
    \/ SheetInsertCol
    \/ SheetDeleteCol

SpecSheet == Init /\ [][NextSheet]_vars

\* C1: after any sequence of set_cell, clear_cell, shift_cells_right/down and
\* row/column insert/delete with their formula fix-up, every cell present in
\* the map has value = parse_input(raw_input) and a raw_input that is not blank.
C1_CellsParsed ==
    \A k \in DOMAIN sheet.cells :
        /\ sheet.cells[k].value = parse_input(sheet.cells[k].raw_input)
        /\ trim(sheet.cells[k].raw_input) # <<>>

\* a formula rewritten by a fix-up pass (text no set_cell of the model enters)
\* sits in a cell that a structural operation moved out of the entered area
C1_Witness ==
    \E k \in DOMAIN sheet.cells :
        /\ sheet.cells[k].raw_input \notin SheetInputs
        /\ sheet.cells[k].value.tag = "Formula"
        /\ (k[1] \notin SheetCols \/ k[2] \notin SheetRows)

\* C2: the value of a stored cell is a Formula if and only if the first
\* character of its raw_input is '='.
C2_FormulaIffLeadingEquals ==
    \A k \in DOMAIN sheet.cells :
        (sheet.cells[k].value.tag = "Formula") <=> (Head(sheet.cells[k].raw_input) = "=")

\* the cells of `after` are the cells of `before`, those at the coordinates
\* `moved` one step further along `to`, every other one where it was
MovedOnly(before, after, moved, to(_)) ==
    /\ \A k \in DOMAIN before :
          LET at == IF k \in moved THEN to(k) ELSE k
          IN  at \in DOMAIN after /\ after[at] = before[k]
    /\ Cardinality(DOMAIN after) = Cardinality(DOMAIN before)

\* C33: shift_cells_right(col, row) moves only the cells of row `row` with
\* column >= col one column right, shift_cells_down(col, row) only the cells
\* of column `col` with row >= row one row down; every other cell keeps its
\* coordinate and no cell's raw_input is changed.
C33_ShiftFrame ==
    \A col \in SheetCols, row \in SheetRows :
        /\ MovedOnly(sheet.cells, shift_cells_right(sheet, col, row).cells,
                     {k \in DOMAIN sheet.cells : k[2] = row /\ k[1] >= col},
                     LAMBDA k : <<k[1] + 1, k[2]>>)
        /\ MovedOnly(sheet.cells, shift_cells_down(sheet, col, row).cells,
                     {k \in DOMAIN sheet.cells : k[1] = col /\ k[2] >= row},
                     LAMBDA k : <<k[1], k[2] + 1>>)

\* a Sheet in which the shift right at B1 moves B1 and leaves A1 and B2 where
\* they are, and the shift down at B1 moves B1 and B2 and leaves A1
C33_Witness ==
    /\ {<<0, 0>>, <<1, 0>>, <<1, 1>>} \subseteq DOMAIN sheet.cells
    /\ shift_cells_right(sheet, 1, 0) # sheet
    /\ shift_cells_down(sheet, 1, 0) # sheet

(***************************************************************************)
(* Structural changes of the Sheet, each with its formula fix-up, in the   *)
(* order insert_structure_* and delete_structure call them.                *)
(***************************************************************************)
row_inserted(sh, r) == insert_row(adjust_formulas_for_row_insert(sh, r), r)
row_deleted(sh, r) == delete_row(adjust_formulas_for_row_delete(sh, r), r)
col_inserted(sh, c) == insert_col(adjust_formulas_for_col_insert(sh, c), c)
col_deleted(sh, c) == delete_col(adjust_formulas_for_col_delete(sh, c), c)

\* C12: in every Sheet, for every row R (column C), a row (column) insert at
\* R followed at once by a row (column) delete at R, each with its formula
\* fix-up, leaves every cell at its coordinate with the raw_input it had.
C12_InsertThenDeleteRestores ==
    /\ \A r \in SheetRows : row_deleted(row_inserted(sheet, r), r).cells = sheet.cells
    /\ \A c \in SheetCols : col_deleted(col_inserted(sheet, c), c).cells = sheet.cells

\* C17 (as the spec has it): B1 holds =A1+1 and the row at index 0 is
\* deleted; then B1's raw_input is =#REF!+1.
C17_AsStated ==
    [][(get_cell(sheet, 1, 0).raw_input = Chars("=A1+1") /\ SheetDeleteRowAt(0))
          => (get_cell(sheet, 1, 0).raw_input = Chars("=#REF!+1"))']_vars

\* C17: B2 holds =A1+1 and the row at index 0 is deleted; then B1's
\* raw_input is =#REF!+1.
C17_DeletedRowReference ==
    [][(get_cell(sheet, 1, 1).raw_input = Chars("=A1+1") /\ SheetDeleteRowAt(0))
          => (get_cell(sheet, 1, 0).raw_input = Chars("=#REF!+1"))']_vars

\* B1 reads =#REF!+1, a text that only a row deletion writes
C17_Witness == get_cell(sheet, 1, 0).raw_input = Chars("=#REF!+1")

(***************************************************************************)
(* Evaluation: formulas entered with set_cell into a few cells, and        *)
(* Sheet::evaluate called on any of them.                                  *)
(***************************************************************************)
MaxEvalSteps == 2
EvalCells == {<<0, 0>>, <<1, 0>>, <<0, 1>>}       \* A1, B1, A2
EvalInputs ==
    {Chars("4"), Chars("=A1"), Chars("=B1+1"), Chars("=A2*2"), Chars("=-A1"),
     Chars("=SUM(A1:B1)"), Chars("=IFERROR(B1,5)"), Chars("=IF(A2=1,B1,A1)"),
     Chars("=A1&\"x\""), Chars("=SUM(A:B)"), Chars("=1/0"), Chars("=2^3^2"),
     Chars("=ABS(1)+ABS(2)")}

EvalSetCell == \E k \in EvalCells, input \in EvalInputs :
    /\ steps < MaxEvalSteps
    /\ steps' = steps + 1
    /\ sheet' = set_cell(sheet, k[1], k[2], input)
    /\ eval_result' = NoResult
    /\ UNCHANGED <<app_vars, trail, edit_cursor, rewrite>>

\* Sheet::evaluate(col, row): the String returned, whether the engine ran out
\* of the nesting EvalFuel allows, the eval_stack the engine was left with and
\* the eval_stack the formula of the cell was evaluated with
EvalEvaluate == \E k \in EvalCells :
    /\ LET r == evaluate_result(sheet, k[1], k[2])
       IN  eval_result' = [valid |-> TRUE, col |-> k[1], row |-> k[2],
                           s |-> r.s, x |-> r.x, stack |-> r.stack, entry |-> r.entry]
    /\ UNCHANGED <<sheet, app_vars, trail, edit_cursor, rewrite, steps>>

NextEval ==
    \/ EvalSetCell
    \/ EvalEvaluate

SpecEval == Init /\ [][NextEval]_vars

\* The reference graph among the formula cells of EvalCells: k refers to j when
\* the name of j occurs in the formula of k (every range of EvalInputs names
\* each cell of EvalCells it covers).
Occurs(name, text) ==
    \E i \in 1..Len(text) : i + Len(name) - 1 <= Len(text)
                            /\ SubSeq(text, i, i + Len(name) - 1) = name
IsFormulaCell(k) == k \in DOMAIN sheet.cells /\ sheet.cells[k].value.tag = "Formula"
RefersTo(k, j) ==
    IsFormulaCell(k) /\ IsFormulaCell(j) /\ Occurs(cell_name(j[1], j[2]), sheet.cells[k].value.s)
\* j is reached from k along one, two or three references
Reaches(k, j) ==
    \/ RefersTo(k, j)
    \/ \E m \in EvalCells : RefersTo(k, m) /\ RefersTo(m, j)
    \/ \E m, n \in EvalCells : RefersTo(k, m) /\ RefersTo(m, n) /\ RefersTo(n, j)
OnCycle(k) == Reaches(k, k)

\* C9: Sheet.evaluate on every formula cell that lies on a reference cycle
\* (through direct references, function arguments or ranges) returns "#CYCLE!".
C9_CycleParticipantsShowCycle ==
    (eval_result.valid /\ OnCycle(<<eval_result.col, eval_result.row>>))
        => eval_result.s = Chars("#CYCLE!")

\* C10: Sheet.evaluate terminates whatever the reference structure: the nesting
\* of evaluate_expr calls never exceeds EvalFuel, the bound that follows from
\* every nested call taking a shorter text and the eval_stack admitting each
\* formula cell once.
C10_EvaluateTerminates == eval_result.valid => ~eval_result.x

\* an evaluation of a cell on a cycle through another cell has returned
C10_Witness ==
    /\ eval_result.valid
    /\ \E j \in EvalCells \ {<<eval_result.col, eval_result.row>>} :
          /\ Reaches(<<eval_result.col, eval_result.row>>, j)
          /\ Reaches(j, <<eval_result.col, eval_result.row>>)
    /\ ~eval_result.x

\* the seven error glyphs of CellError::to_string
ErrorGlyphs ==
    {Chars("#DIV/0!"), Chars("#VALUE!"), Chars("#REF!"), Chars("#NAME?"), Chars("#NUM!"),
     Chars("#N/A"), Chars("#CYCLE!")}

\* C30: Sheet::evaluate of a formula cell returns the display string of the
\* value the engine computed or, when the engine fails, one of the seven error
\* glyphs; no other failure text comes back.
C30_FailureIsGlyph ==
    (eval_result.valid /\ IsFormulaCell(<<eval_result.col, eval_result.row>>))
        => LET run == evaluate_run(sheet, eval_result.col, eval_result.row)
           IN  ~run.ok => eval_result.s \in ErrorGlyphs

\* the glyph of the error the formula of cell k evaluates to, <<>> when it
\* evaluates to a value that is no error
ErrorOf(k) ==
    LET run == evaluate_run(sheet, k[1], k[2])
    IN  IF ~run.ok THEN run.e
        ELSE IF run.v.tag = "Error" THEN CellError_to_string(run.v.e) ELSE <<>>
\* the formula cells the formula of k names, outside every cycle through k,
\* whose own evaluation is an error
ErroringReferences(k) ==
    {j \in EvalCells \ {k} : RefersTo(k, j) /\ ~Reaches(j, k) /\ ErrorOf(j) # <<>>}
\* the formula of k evaluates each of its arguments: it is no IF and no IFERROR
EvaluatesAllArguments(k) ==
    IsFormulaCell(k) /\ ~starts_with(sheet.cells[k].value.s, Chars("=IF"))

\* C31: once a referenced cell evaluates to an error, the enclosing expression
\* (operator or function call, SUM and & included) evaluates to that error,
\* unless the erroring sub-expression is the first argument of IFERROR.
C31_ErrorsPropagate ==
    (eval_result.valid /\ EvaluatesAllArguments(<<eval_result.col, eval_result.row>>))
        => LET errs == ErroringReferences(<<eval_result.col, eval_result.row>>)
           IN  errs # {} => eval_result.s \in {ErrorOf(j) : j \in errs}

\* the cell last evaluated holds the formula `text`
Evaluated(text) ==
    /\ eval_result.valid
    /\ get_cell(sheet, eval_result.col, eval_result.row).value = Formula(text)

\* C32: exponentiation is right-associative: =2^3^2 evaluates to 2^(3^2),
\* which is 512, not to (2^3)^2, which is 64.
C32_PowerRightAssociative == Evaluated(Chars("=2^3^2")) => eval_result.s = Chars("512")

\* C34: a function call is an atom: =ABS(1)+ABS(2), a binary operator between
\* two function calls, evaluates to the sum of the results of the two calls.
C34_FunctionCallIsAtom == Evaluated(Chars("=ABS(1)+ABS(2)")) => eval_result.s = Chars("3")

\* C35: every evaluation returns with the eval_stack equal to its content at
\* entry, whether it ends in a value, an error value or Err, and while the
\* formula of a formula cell is evaluated that cell's coordinate is in the
\* eval_stack.
C35_StackRestoredAndCellOnStack ==
    (eval_result.valid /\ IsFormulaCell(<<eval_result.col, eval_result.row>>))
        => /\ eval_result.stack = eval_result.entry
           /\ <<eval_result.col, eval_result.row>> \in eval_result.entry

\* Reference graphs over all three cells: formulas with no, one and two
\* references entered into A1, B1 and A2, and Sheet::evaluate called on them.
MaxGraphSteps == 3
GraphInputs ==
    {Chars("4"), Chars("=2^3^2"), Chars("=B1+1"), Chars("=A2*2"), Chars("=A1+B1"),
     Chars("=SUM(A1:B1)")}

GraphSetCell == \E k \in EvalCells, input \in GraphInputs :
    /\ steps < MaxGraphSteps
    /\ steps' = steps + 1
    /\ sheet' = set_cell(sheet, k[1], k[2], input)
    /\ eval_result' = NoResult
    /\ UNCHANGED <<app_vars, trail, edit_cursor, rewrite>>

NextGraph ==
    \/ GraphSetCell
    \/ EvalEvaluate

SpecGraph == Init /\ [][NextGraph]_vars

\* no formula cell lies on a reference cycle
Acyclic == \A k \in EvalCells : ~OnCycle(k)

\* C36: cycle detection has no false positives: when the reference graph among
\* the formula cells is acyclic, diamonds included, no evaluation yields
\* #CYCLE!.
C36_NoFalseCycle ==
    (eval_result.valid /\ Acyclic) => ~Occurs(Chars("#CYCLE!"), eval_result.s)

\* a diamond has been evaluated: the cell evaluated refers to a formula cell j
\* directly and through a third formula cell, and its value is a number
C36_Witness ==
    /\ eval_result.valid
    /\ Acyclic
    /\ LET k == <<eval_result.col, eval_result.row>>
       IN  \E j, m \in EvalCells : RefersTo(k, j) /\ RefersTo(k, m) /\ RefersTo(m, j)
    /\ ErrorOf(<<eval_result.col, eval_result.row>>) = <<>>


(***************************************************************************)
(* formula.rs as pure functions: the state starts with an input (a formula *)
(* built from reference records, or a column index) in rewrite, and each   *)
(* action applies one function of formula.rs to it and records the call.   *)
(***************************************************************************)
MaxColumnIndex == 18277                      \* "ZZZ"
RefCols == {0, 1, 25}                        \* A, B, Z
RefRows == {0, 2, 8}                         \* rows 1, 3, 9
StructureAts == {0, 1, 2}
StructureKinds == {"RowInsert", "RowDelete", "ColInsert", "ColDelete"}
Offsets == {-1, 0, 1}
Refs == [col : RefCols, row : RefRows, col_abs : BOOLEAN, row_abs : BOOLEAN]
Corners == [col : {1}, row : {2, 8}, col_abs : {FALSE}, row_abs : BOOLEAN]
\* a formula: its shape, its reference a and (shape "range") its second corner b
Formulas ==
    [shape : {"single", "lower", "quoted"}, a : Refs,
     b : {[col |-> 1, row |-> 2, col_abs |-> FALSE, row_abs |-> FALSE]}]
    \cup [shape : {"range"}, a : Refs, b : Corners]

RefText(r) == FormatRef(r.col, r.row, r.col_abs, r.row_abs)
\* the text of a formula of the given shape around the texts ta, tb of its
\* references; lit is the content of the string literal of shape "quoted"
Shaped(shape, ta, tb, lit) ==
    CASE shape = "single" -> <<"=">> \o ta \o <<"+", "1">>
      [] shape = "lower"  -> <<"=">> \o ta \o <<"*", "2">>
      [] shape = "quoted" -> <<"=", "\"">> \o lit \o <<"\"", "&">> \o ta
      [] shape = "range"  -> <<"=", "S", "U", "M", "(">> \o ta \o <<":">> \o tb \o <<")">>
FormulaText(form) ==
    Shaped(form.shape,
           IF form.shape = "lower" THEN to_lowercase(RefText(form.a)) ELSE RefText(form.a),
           RefText(form.b), RefText(form.a))
RefsOf(form) == IF form.shape = "range" THEN {form.a, form.b} ELSE {form.a}

\* the four public entry points of the structure rewriting
StructureChanged(formula, change) ==
    CASE change.kind = "RowInsert" -> adjust_formula_for_row_insert(formula, change.at)
      [] change.kind = "RowDelete" -> adjust_formula_for_row_delete(formula, change.at)
      [] change.kind = "ColInsert" -> adjust_formula_for_col_insert(formula, change.at)
      [] change.kind = "ColDelete" -> adjust_formula_for_col_delete(formula, change.at)

InitFormula ==
    /\ Started
    /\ rewrite \in {[fn |-> "formula", form |-> form] : form \in Formulas}
                   \cup {[fn |-> "column", k |-> k] : k \in 0..MaxColumnIndex}

FormulaFrame == UNCHANGED <<sheet, app_vars, trail, edit_cursor, eval_result, steps>>

FormulaStructure ==
    /\ rewrite.fn = "formula"
    /\ \E kind \in StructureKinds, at \in StructureAts :
          rewrite' = [fn |-> "structure_change", form |-> rewrite.form,
                      change |-> [kind |-> kind, at |-> at],
                      text |-> FormulaText(rewrite.form),
                      out |-> StructureChanged(FormulaText(rewrite.form),
                                               [kind |-> kind, at |-> at])]
    /\ FormulaFrame

FormulaAdjust ==
    /\ rewrite.fn = "formula"
    /\ \E dcol, drow \in Offsets :
          rewrite' = [fn |-> "adjust_formula", form |-> rewrite.form,
                      text |-> FormulaText(rewrite.form), dcol |-> dcol, drow |-> drow,
                      out |-> adjust_formula(FormulaText(rewrite.form), dcol, drow),
                      prev |-> NoCall]
    /\ FormulaFrame

\* adjust_formula applied to the result of the call before
FormulaAdjustAgain ==
    /\ rewrite.fn = "adjust_formula"
    /\ rewrite.prev = NoCall
    /\ \E dcol, drow \in Offsets :
          rewrite' = [fn |-> "adjust_formula", form |-> rewrite.form,
                      text |-> rewrite.out, dcol |-> dcol, drow |-> drow,
                      out |-> adjust_formula(rewrite.out, dcol, drow),
                      prev |-> rewrite]
    /\ FormulaFrame

\* col_to_name(k), and parse_cell_ref of the reference to row 1 of that column
FormulaColName ==
    /\ rewrite.fn = "column"
    /\ rewrite' = [fn |-> "col_to_name", k |-> rewrite.k, out |-> col_to_name(rewrite.k),
                   ref |-> parse_cell_ref(col_to_name(rewrite.k) \o <<"1">>)]
    /\ FormulaFrame

NextFormula ==
    \/ FormulaStructure
    \/ FormulaAdjust
    \/ FormulaAdjustAgain
    \/ FormulaColName

SpecFormula == InitFormula /\ [][NextFormula]_vars


\* a relative component of a reference of the formula would go below 0
Clamped(form, dcol, drow) ==
    \E r \in RefsOf(form) :
        \/ ~r.col_abs /\ r.col + dcol < 0
        \/ ~r.row_abs /\ r.row + drow < 0
\* the last two calls were adjust_formula(adjust_formula(f, d), -d), unclamped
AdjustedThereAndBack ==
    /\ rewrite.fn = "adjust_formula"
    /\ rewrite.prev.fn = "adjust_formula"
    /\ rewrite.dcol = -rewrite.prev.dcol
    /\ rewrite.drow = -rewrite.prev.drow
    /\ ~Clamped(rewrite.form, rewrite.prev.dcol, rewrite.prev.drow)

\* C13: for every formula f and offset (dcol, drow) under which no reference
\* is clamped at 0, adjust_formula(adjust_formula(f, dcol, drow), -dcol, -drow)
\* is f.
C13_AdjustRoundTrip == AdjustedThereAndBack => rewrite.out = rewrite.prev.text


\* C14: for every column index k in 0..MaxColumnIndex, parse_cell_ref of the
\* reference built from col_to_name(k) is a reference to column k, and
\* col_to_name(0) = "A", col_to_name(25) = "Z", col_to_name(26) = "AA".
C14_ColumnNameRoundTrip ==
    rewrite.fn = "col_to_name" =>
        /\ rewrite.ref.some
        /\ rewrite.ref.col = rewrite.k
        /\ rewrite.k = 0 => rewrite.out = <<"A">>
        /\ rewrite.k = 25 => rewrite.out = <<"Z">>
        /\ rewrite.k = 26 => rewrite.out = <<"A", "A">>

\* the last column with a three-letter name has been named and parsed back
C14_Witness ==
    /\ rewrite.fn = "col_to_name"
    /\ rewrite.k = 18277
    /\ rewrite.out = <<"Z", "Z", "Z">>
    /\ rewrite.ref.col = 18277


\* the coordinate of a reference that a change of rows (columns) looks at
Line(r, change) == IF change.kind \in {"RowInsert", "RowDelete"} THEN r.row ELSE r.col
\* the reference r with that coordinate moved by d; its $ markers stay
Moved(r, change, d) ==
    IF change.kind \in {"RowInsert", "RowDelete"}
    THEN [r EXCEPT !.row = @ + d] ELSE [r EXCEPT !.col = @ + d]
\* what C15 says a reference reads after the deletion
DeletedRef(r, change) ==
    IF Line(r, change) = change.at THEN <<"#", "R", "E", "F", "!">>
    ELSE IF Line(r, change) > change.at THEN RefText(Moved(r, change, -1))
    ELSE RefText(r)
\* what C16 says a reference reads after the insertion
InsertedRef(r, change) ==
    IF Line(r, change) >= change.at THEN RefText(Moved(r, change, 1)) ELSE RefText(r)

=============================================================================
